---- MODULE Spec2Model ----
(***************************************************************************)
(* Model of the LVGL font viewer's read side: the two format decoders      *)
(* (BINFontParser, CFontParser), the bitmap unpacking they share and the   *)
(* FontInfo index.  Bytes are naturals in 0..255, byte strings are         *)
(* sequences, Python's None is the record None, a dict is a function.      *)
(***************************************************************************)
EXTENDS Integers, Sequences, FiniteSets, TLC

VARIABLES
    pc,        \* "idle", "parsing" (parse() entered), "done" (parse() left),
               \* "rejected" (load_font returned without a parser); while
               \* _read_chunks is followed step by step: "reading" (at the head of
               \* its loop), "read" (it returned) or "raised" (an exception left it)
    kind,      \* the parser in use: "none", "bin" or "c"
    input,     \* the file handed to parse()
    chunks,    \* BINFontParser.chunks of the live parser instance
    calls,     \* number of parse() calls made on the live parser instance
    ret,       \* how parse() ended: [raised, result]
    u_in,      \* the arguments of the last _unpack_bitmap call
    u_impl,    \* which _unpack_bitmap ran: "none", "bin" or "c"
    u_out,     \* what it produced: [raise, grid]
    u_grid,    \* the pixel grid u_in.data was packed from (<<>> when it was not)
    self_offset, \* self.offset while _read_chunks is followed step by step (else 0)
    iters      \* the iterations of its loop entered so far (else 0)

vars == <<pc, kind, input, chunks, calls, ret, u_in, u_impl, u_out, u_grid, self_offset, iters>>

(***************************************************************************)
(* Bounds of the model.                                                    *)
(***************************************************************************)
MaxW == 4
MaxH == 2
MaxBytes == 3
MaxRangeLen == 2
MaxGlyphs == 4
MaxCells == 6
MaxPieces == 3

(***************************************************************************)
(* Python values.                                                          *)
(***************************************************************************)
None == [none |-> TRUE]
Some(x) == [none |-> FALSE, val |-> x]

Min(a, b) == IF a < b THEN a ELSE b

\* d[a:b] on a byte string, with Python's clamping of both ends (0 <= a)
Slice(d, a, b) ==
    LET hi == Min(b, Len(d)) IN
    IF a >= hi THEN <<>> ELSE SubSeq(d, a + 1, hi)

(***************************************************************************)
(* Bitmap unpacking.                                                       *)
(***************************************************************************)
\* the mutant of ShiftMask: the mask is forgotten
ShiftNoMask(byte_val, shift, mask) == byte_val \div (2 ^ shift)

\* (byte_val >> shift) & mask, mask = 2^b - 1
ShiftMask(byte_val, shift, mask) == (byte_val \div (2 ^ shift)) % (mask + 1)

\* np.zeros((height, width)) seen through .flat
Zeros(n) == [i \in 1..n |-> 0]

\* a flat array of width*height samples as height rows of width samples
Reshape(flat, width, height) ==
    [r \in 1..height |-> [c \in 1..width |-> flat[(r - 1) * width + c]]]

Raise == [raise |-> TRUE]
Grid(flat, width, height) == [raise |-> FALSE, grid |-> Reshape(flat, width, height)]

\* np.frombuffer(data, dtype=np.uint8).reshape(height, width)
FromBuffer(data, width, height) ==
    IF Len(data) # width * height THEN Raise ELSE Grid(data, width, height)

\* BINFontParser._unpack_bitmap, bpp == 4
RECURSIVE Bin4(_, _, _, _, _)
Bin4(data, i, pixels, pixel_idx, n) ==
    IF i > Len(data) \/ pixel_idx >= n THEN pixels
    ELSE LET p1 == [pixels EXCEPT ![pixel_idx + 1] = ShiftMask(data[i], 4, 15)] IN
         IF pixel_idx + 1 >= n THEN p1
         ELSE Bin4(data, i + 1,
                   [p1 EXCEPT ![pixel_idx + 2] = ShiftMask(data[i], 0, 15)],
                   pixel_idx + 2, n)

\* BINFontParser._unpack_bitmap, the inner loop over the shifts of one byte:
\* write, count, then test
RECURSIVE BinInner(_, _, _, _, _, _, _)
BinInner(byte_val, shifts, s, mask, pixels, pixel_idx, n) ==
    IF s > Len(shifts) THEN [pixels |-> pixels, pixel_idx |-> pixel_idx]
    ELSE LET p1 == [pixels EXCEPT ![pixel_idx + 1] = ShiftMask(byte_val, shifts[s], mask)] IN
         IF pixel_idx + 1 >= n THEN [pixels |-> p1, pixel_idx |-> pixel_idx + 1]
         ELSE BinInner(byte_val, shifts, s + 1, mask, p1, pixel_idx + 1, n)

\* BINFontParser._unpack_bitmap, bpp == 2 and bpp == 1: the loop over the bytes
RECURSIVE BinOuter(_, _, _, _, _, _, _)
BinOuter(data, i, shifts, mask, pixels, pixel_idx, n) ==
    IF i > Len(data) \/ pixel_idx >= n THEN pixels
    ELSE LET r == BinInner(data[i], shifts, 1, mask, pixels, pixel_idx, n) IN
         BinOuter(data, i + 1, shifts, mask, r.pixels, r.pixel_idx, n)

\* the mutant of BinUnpackBitmap: at 2 and 1 bpp the fields of a byte are taken from
\* the least significant end
BinUnpackBitmapLsbFirst(data, width, height, bpp) ==
    LET n == width * height IN
    CASE bpp = 8 -> FromBuffer(data, width, height)
      [] bpp = 4 -> Grid(Bin4(data, 1, Zeros(n), 0, n), width, height)
      [] bpp = 2 -> Grid(BinOuter(data, 1, <<0, 2, 4, 6>>, 3, Zeros(n), 0, n), width, height)
      [] bpp = 1 -> Grid(BinOuter(data, 1, <<0, 1, 2, 3, 4, 5, 6, 7>>, 1, Zeros(n), 0, n),
                         width, height)
      [] OTHER -> Grid(Zeros(n), width, height)

\* BINFontParser._unpack_bitmap
BinUnpackBitmap(data, width, height, bpp) ==
    LET n == width * height IN
    CASE bpp = 8 -> FromBuffer(data, width, height)
      [] bpp = 4 -> Grid(Bin4(data, 1, Zeros(n), 0, n), width, height)
      [] bpp = 2 -> Grid(BinOuter(data, 1, <<6, 4, 2, 0>>, 3, Zeros(n), 0, n), width, height)
      [] bpp = 1 -> Grid(BinOuter(data, 1, <<7, 6, 5, 4, 3, 2, 1, 0>>, 1, Zeros(n), 0, n),
                         width, height)
      [] OTHER -> Grid(Zeros(n), width, height)

\* CFontParser._unpack_bitmap, bpp == 4
RECURSIVE C4(_, _, _, _, _)
C4(data, i, pixels, pixel_idx, n) ==
    IF i > Len(data) \/ pixel_idx >= n THEN pixels
    ELSE LET p1 == [pixels EXCEPT ![pixel_idx + 1] = ShiftMask(data[i], 4, 15)] IN
         IF pixel_idx + 1 >= n THEN p1
         ELSE C4(data, i + 1,
                 [p1 EXCEPT ![pixel_idx + 2] = ShiftMask(data[i], 0, 15)],
                 pixel_idx + 2, n)

\* CFontParser._unpack_bitmap, the inner loop over the shifts of one byte:
\* test, then write and count
RECURSIVE CInner(_, _, _, _, _, _, _)
CInner(byte_val, shifts, s, mask, pixels, pixel_idx, n) ==
    IF s > Len(shifts) \/ pixel_idx >= n THEN [pixels |-> pixels, pixel_idx |-> pixel_idx]
    ELSE CInner(byte_val, shifts, s + 1, mask,
                [pixels EXCEPT ![pixel_idx + 1] = ShiftMask(byte_val, shifts[s], mask)],
                pixel_idx + 1, n)

\* CFontParser._unpack_bitmap, bpp == 2 and bpp == 1: the loop over the bytes
RECURSIVE COuter(_, _, _, _, _, _, _)
COuter(data, i, shifts, mask, pixels, pixel_idx, n) ==
    IF i > Len(data) \/ pixel_idx >= n THEN pixels
    ELSE LET r == CInner(data[i], shifts, 1, mask, pixels, pixel_idx, n) IN
         COuter(data, i + 1, shifts, mask, r.pixels, r.pixel_idx, n)

\* the mutant of CUnpackBitmap: fewer bytes than the samples need is an error
CUnpackBitmapRefusesShort(data, width, height, bpp) ==
    LET n == width * height IN
    IF 8 * Len(data) < n * bpp THEN Raise
    ELSE CASE bpp = 8 -> FromBuffer(data, width, height)
           [] bpp = 4 -> Grid(C4(data, 1, Zeros(n), 0, n), width, height)
           [] bpp = 2 -> Grid(COuter(data, 1, <<6, 4, 2, 0>>, 3, Zeros(n), 0, n),
                              width, height)
           [] bpp = 1 -> Grid(COuter(data, 1, <<7, 6, 5, 4, 3, 2, 1, 0>>, 1, Zeros(n), 0, n),
                              width, height)
           [] OTHER -> Grid(Zeros(n), width, height)

\* CFontParser._unpack_bitmap
CUnpackBitmap(data, width, height, bpp) ==
    LET n == width * height IN
    CASE bpp = 8 -> FromBuffer(data, width, height)
      [] bpp = 4 -> Grid(C4(data, 1, Zeros(n), 0, n), width, height)
      [] bpp = 2 -> Grid(COuter(data, 1, <<6, 4, 2, 0>>, 3, Zeros(n), 0, n), width, height)
      [] bpp = 1 -> Grid(COuter(data, 1, <<7, 6, 5, 4, 3, 2, 1, 0>>, 1, Zeros(n), 0, n),
                         width, height)
      [] OTHER -> Grid(Zeros(n), width, height)

\* CFontParser._calculate_bitmap_bytes
CalculateBitmapBytes(pixel_count, bpp) ==
    CASE bpp = 8 -> pixel_count
      [] bpp = 4 -> (pixel_count + 1) \div 2
      [] bpp = 2 -> (pixel_count + 3) \div 4
      [] bpp = 1 -> (pixel_count + 7) \div 8
      [] OTHER -> pixel_count

(***************************************************************************)
(* Reading little-endian integers (struct.unpack_from).                    *)
(***************************************************************************)
\* struct.unpack_from raises struct.error unless size bytes lie at offset
CanRead(data, offset, size) == offset + size <= Len(data)

ReadUint8(data, offset) == data[offset + 1]
ReadUint16(data, offset) == data[offset + 1] + 256 * data[offset + 2]
ReadUint32(data, offset) ==
    data[offset + 1] + 256 * data[offset + 2] + 65536 * data[offset + 3]
        + 16777216 * data[offset + 4]
ReadInt8(data, offset) ==
    IF data[offset + 1] >= 128 THEN data[offset + 1] - 256 ELSE data[offset + 1]
ReadInt16(data, offset) ==
    IF ReadUint16(data, offset) >= 32768 THEN ReadUint16(data, offset) - 65536
    ELSE ReadUint16(data, offset)

\* a run of _read_* calls of the given sizes from offset: TRUE iff none raises
RECURSIVE ReadsFit(_, _, _, _)
ReadsFit(data, offset, sizes, k) ==
    IF k > Len(sizes) THEN TRUE
    ELSE CanRead(data, offset, sizes[k]) /\ ReadsFit(data, offset + sizes[k], sizes, k + 1)

\* the offset the k-th read of such a run starts at
RECURSIVE OffsetOf(_, _, _)
OffsetOf(offset, sizes, k) ==
    IF k = 1 THEN offset ELSE OffsetOf(offset, sizes, k - 1) + sizes[k - 1]

(***************************************************************************)
(* Dicts.                                                                  *)
(***************************************************************************)
EmptyDict == <<>>

\* d[k] = v
Put(d, k, v) == [x \in (DOMAIN d) \cup {k} |-> IF x = k THEN v ELSE d[x]]

\* a dict whose iteration order matters, as a sequence of <<key, value>>: d[k] = v
\* keeps the place of a key that is already there and appends a new one
HasKey(od, k) == \E i \in 1..Len(od) : od[i][1] = k
OrderedPut(od, k, v) ==
    IF HasKey(od, k)
    THEN [i \in 1..Len(od) |-> IF od[i][1] = k THEN <<k, v>> ELSE od[i]]
    ELSE Append(od, <<k, v>>)

(***************************************************************************)
(* FontInfo and GlyphInfo.                                                 *)
(***************************************************************************)
\* FontInfo(): every field at its dataclass default
FontInfoDefault ==
    [font_name |-> "", file_path |-> "", file_type |-> "",
     font_size |-> 0, line_height |-> 0, base_line |-> 0, bpp |-> 0,
     glyphs |-> <<>>, glyph_bitmap |-> <<>>,
     cmap_ranges |-> <<>>, kern_pairs |-> <<>>, kern_scale |-> 0,
     subpx |-> "NONE", compression |-> "NONE",
     underline_position |-> 0, underline_thickness |-> 0,
     unicode_to_glyph |-> EmptyDict]

\* GlyphInfo(...): bitmap_data defaults to None
GlyphInfo(unicode, bitmap_index, adv_w, box_w, box_h, ofs_x, ofs_y) ==
    [unicode |-> unicode, bitmap_index |-> bitmap_index, adv_w |-> adv_w,
     box_w |-> box_w, box_h |-> box_h, ofs_x |-> ofs_x, ofs_y |-> ofs_y,
     bitmap_data |-> None]

\* FontInfo.build_index: the dict is cleared, then every glyph with unicode > 0 is
\* stored under its unicode, in glyph order; a glyph object is named by its place
\* in font.glyphs
\* the mutant of IndexFrom: the reserved glyphs (unicode 0) are stored too
RECURSIVE IndexFromAll(_, _, _)
IndexFromAll(glyphs, i, index) ==
    IF i > Len(glyphs) THEN index
    ELSE IndexFromAll(glyphs, i + 1, Put(index, glyphs[i].unicode, i))

RECURSIVE IndexFrom(_, _, _)
IndexFrom(glyphs, i, index) ==
    IF i > Len(glyphs) THEN index
    ELSE IndexFrom(glyphs, i + 1,
                   IF glyphs[i].unicode > 0 THEN Put(index, glyphs[i].unicode, i)
                   ELSE index)

BuildIndex(font) == [font EXCEPT !.unicode_to_glyph = IndexFrom(font.glyphs, 1, EmptyDict)]

\* FontInfo.get_glyph: the glyph object, or None
GetGlyph(font, unicode_val) ==
    IF unicode_val \in DOMAIN font.unicode_to_glyph
    THEN Some(font.unicode_to_glyph[unicode_val])
    ELSE None

\* the mutant of GetUnicodeRanges: the end of a pair is one past the last unicode
GetUnicodeRangesPastEnd(font) ==
    [k \in 1..Len(font.cmap_ranges) |->
        <<font.cmap_ranges[k].range_start,
          font.cmap_ranges[k].range_start + font.cmap_ranges[k].range_length>>]

\* FontInfo.get_unicode_ranges: one (start, end) tuple per entry of cmap_ranges
GetUnicodeRanges(font) ==
    [k \in 1..Len(font.cmap_ranges) |->
        <<font.cmap_ranges[k].range_start,
          font.cmap_ranges[k].range_start + font.cmap_ranges[k].range_length - 1>>]

(***************************************************************************)
(* BINFontParser.                                                          *)
(***************************************************************************)
\* chunk names as the code sees them after decode('ascii'): 'head', 'cmap', ...
TagHead == <<104, 101, 97, 100>>
TagCmap == <<99, 109, 97, 112>>
TagLoca == <<108, 111, 99, 97>>
TagGlyf == <<103, 108, 121, 102>>

\* str.rstrip('\x00')
RECURSIVE RStripNul(_)
RStripNul(name) ==
    IF Len(name) > 0 /\ name[Len(name)] = 0 THEN RStripNul(SubSeq(name, 1, Len(name) - 1))
    ELSE name

\* bytes.decode('ascii', errors='ignore').rstrip('\x00')
DecodeName(raw) == RStripNul(SelectSeq(raw, LAMBDA b : b < 128))

\* BINFontParser._read_chunks from self.offset = offset on, with self.chunks = found
RECURSIVE ReadChunks(_, _, _)
ReadChunks(file_data, offset, found) ==
    IF ~(offset < Len(file_data)) THEN found
    ELSE IF offset + 4 > Len(file_data) THEN found
    ELSE LET chunk_size == ReadUint32(file_data, offset)
             name_at == offset + 4
         IN  IF name_at + 4 > Len(file_data) THEN found
             ELSE LET chunk_name == DecodeName(Slice(file_data, name_at, name_at + 4))
                      data_at == name_at + 4
                      data_size == chunk_size - 8
                  IN  IF data_size < 0 THEN found
                      ELSE IF data_at + data_size > Len(file_data) THEN found
                      ELSE ReadChunks(file_data, data_at + data_size,
                               Put(found, chunk_name,
                                   Slice(file_data, data_at, data_at + data_size)))

\* the mutant of ChunkIteration: a declared size below 8 is not refused
ChunkIterationAnySize(file_data, offset, found) ==
    IF offset + 4 > Len(file_data) THEN [pc |-> "read", offset |-> offset, found |-> found]
    ELSE IF ~CanRead(file_data, offset, 4)
         THEN [pc |-> "raised", offset |-> offset, found |-> found]
    ELSE LET chunk_size == ReadUint32(file_data, offset)
             name_at == offset + 4
         IN  IF name_at + 4 > Len(file_data)
             THEN [pc |-> "read", offset |-> name_at, found |-> found]
             ELSE LET chunk_name == DecodeName(Slice(file_data, name_at, name_at + 4))
                      data_at == name_at + 4
                      data_size == chunk_size - 8
                  IN  IF data_at + data_size > Len(file_data)
                      THEN [pc |-> "read", offset |-> data_at, found |-> found]
                      ELSE [pc |-> "reading", offset |-> data_at + data_size,
                            found |-> Put(found, chunk_name,
                                          Slice(file_data, data_at, data_at + data_size))]

\* one iteration of the loop of _read_chunks, entered with self.offset = offset <
\* len(self.data) and self.chunks = found: where it leaves the loop ("reading": at
\* its head again, "read": by break, "raised": by an exception), self.offset and
\* self.chunks
ChunkIteration(file_data, offset, found) ==
    IF offset + 4 > Len(file_data) THEN [pc |-> "read", offset |-> offset, found |-> found]
    ELSE IF ~CanRead(file_data, offset, 4)
         THEN [pc |-> "raised", offset |-> offset, found |-> found]
    ELSE LET chunk_size == ReadUint32(file_data, offset)
             name_at == offset + 4
         IN  IF name_at + 4 > Len(file_data)
             THEN [pc |-> "read", offset |-> name_at, found |-> found]
             ELSE LET chunk_name == DecodeName(Slice(file_data, name_at, name_at + 4))
                      data_at == name_at + 4
                      data_size == chunk_size - 8
                  IN  IF data_size < 0
                      THEN [pc |-> "read", offset |-> data_at, found |-> found]
                      ELSE IF data_at + data_size > Len(file_data)
                      THEN [pc |-> "read", offset |-> data_at, found |-> found]
                      ELSE [pc |-> "reading", offset |-> data_at + data_size,
                            found |-> Put(found, chunk_name,
                                          Slice(file_data, data_at, data_at + data_size))]

\* the sizes of the reads _parse_head_chunk makes, in order
HeadReads == <<4, 2, 2, 2, 2, 2, 2, 2, 2, 2, 2, 2, 1, 1, 1, 1, 1, 1, 1, 1, 1, 1, 2, 2>>

\* the mutant of ParseHeadChunk: the kerning scale read from the chunk is kept
ParseHeadChunkKeepsKernScale(font, data) ==
    IF ~ReadsFit(data, 0, HeadReads, 1) THEN [exc |-> "struct.error", font |-> font]
    ELSE LET ascent == ReadUint16(data, OffsetOf(0, HeadReads, 4))
             descent == ReadInt16(data, OffsetOf(0, HeadReads, 5))
         IN  [exc |-> "none",
              font |-> [font EXCEPT
                  !.font_size = ReadUint16(data, OffsetOf(0, HeadReads, 3)),
                  !.bpp = ReadUint8(data, OffsetOf(0, HeadReads, 16)),
                  !.kern_scale = ReadUint16(data, OffsetOf(0, HeadReads, 12)),
                  !.line_height = ascent - descent,
                  !.base_line = 0 - descent]]

\* the mutant of ParseHeadChunk: line_height = ascent + descent
ParseHeadChunkSum(font, data) ==
    IF ~ReadsFit(data, 0, HeadReads, 1) THEN [exc |-> "struct.error", font |-> font]
    ELSE LET ascent == ReadUint16(data, OffsetOf(0, HeadReads, 4))
             descent == ReadInt16(data, OffsetOf(0, HeadReads, 5))
         IN  [exc |-> "none",
              font |-> [font EXCEPT
                  !.font_size = ReadUint16(data, OffsetOf(0, HeadReads, 3)),
                  !.bpp = ReadUint8(data, OffsetOf(0, HeadReads, 16)),
                  !.line_height = ascent + descent,
                  !.base_line = 0 - descent]]

\* BINFontParser._parse_head_chunk on data = self.chunks['head']: a read past the
\* end of data raises struct.error out of the method
ParseHeadChunk(font, data) ==
    IF ~ReadsFit(data, 0, HeadReads, 1) THEN [exc |-> "struct.error", font |-> font]
    ELSE LET ascent == ReadUint16(data, OffsetOf(0, HeadReads, 4))
             descent == ReadInt16(data, OffsetOf(0, HeadReads, 5))
         IN  [exc |-> "none",
              font |-> [font EXCEPT
                  !.font_size = ReadUint16(data, OffsetOf(0, HeadReads, 3)),
                  !.bpp = ReadUint8(data, OffsetOf(0, HeadReads, 16)),
                  !.line_height = ascent - descent,
                  !.base_line = 0 - descent]]

\* the loops of _parse_cmap_chunk over j, one per subtable type
RECURSIVE CmapTiny(_, _, _, _, _)
CmapTiny(map, j, range_len, range_start, glyph_id_offset) ==
    IF j >= range_len THEN map
    ELSE CmapTiny(OrderedPut(map, range_start + j, glyph_id_offset + j),
                  j + 1, range_len, range_start, glyph_id_offset)

RECURSIVE CmapFormat0(_, _, _, _, _, _, _)
CmapFormat0(map, j, range_len, range_start, glyph_id_offset, data, sub_offset) ==
    IF j >= range_len THEN map
    ELSE CmapFormat0(IF sub_offset + j < Len(data)
                     THEN OrderedPut(map, range_start + j,
                                     glyph_id_offset + data[sub_offset + j + 1])
                     ELSE map,
                     j + 1, range_len, range_start, glyph_id_offset, data, sub_offset)

RECURSIVE CmapSparseTiny(_, _, _, _, _, _, _)
CmapSparseTiny(map, j, total, range_start, glyph_id_offset, data, sub_offset) ==
    IF j >= total THEN map
    ELSE CmapSparseTiny(IF sub_offset + j * 2 + 2 <= Len(data)
                        THEN OrderedPut(map, range_start + ReadUint16(data, sub_offset + j * 2),
                                        glyph_id_offset + j)
                        ELSE map,
                        j + 1, total, range_start, glyph_id_offset, data, sub_offset)

RECURSIVE CmapSparse(_, _, _, _, _, _, _)
CmapSparse(map, j, total, range_start, glyph_id_offset, data, sub_offset) ==
    IF j >= total THEN map
    ELSE LET code_pos == sub_offset + j * 2
             id_pos == sub_offset + total * 2 + j * 2
         IN  CmapSparse(IF code_pos + 2 <= Len(data) /\ id_pos + 2 <= Len(data)
                        THEN OrderedPut(map, range_start + ReadUint16(data, code_pos),
                                        glyph_id_offset + ReadUint16(data, id_pos))
                        ELSE map,
                        j + 1, total, range_start, glyph_id_offset, data, sub_offset)

\* one subtable of _parse_cmap_chunk: its header is the 16 bytes at offset
CmapSubtable(map, data, offset) ==
    LET sub_offset == ReadUint32(data, offset)
        range_start == ReadUint32(data, offset + 4)
        range_len == ReadUint16(data, offset + 8)
        glyph_id_offset == ReadUint16(data, offset + 10)
        total == ReadUint16(data, offset + 12)
        sub_type == ReadUint8(data, offset + 14)
    IN  CASE sub_type = 2 -> CmapTiny(map, 0, range_len, range_start, glyph_id_offset)
          [] sub_type = 0 ->
                IF sub_offset >= 0 /\ sub_offset + total <= Len(data)
                THEN CmapFormat0(map, 0, range_len, range_start, glyph_id_offset,
                                 data, sub_offset)
                ELSE map
          [] sub_type = 3 ->
                IF sub_offset >= 0 /\ sub_offset + total * 2 <= Len(data)
                THEN CmapSparseTiny(map, 0, total, range_start, glyph_id_offset,
                                    data, sub_offset)
                ELSE map
          [] sub_type = 1 ->
                IF sub_offset >= 0 /\ sub_offset + total * 2 + total * 2 <= Len(data)
                THEN CmapSparse(map, 0, total, range_start, glyph_id_offset,
                                data, sub_offset)
                ELSE map
          [] OTHER -> map

\* the loop of _parse_cmap_chunk over the subtable headers
RECURSIVE CmapSubtables(_, _, _, _, _)
CmapSubtables(map, data, i, count, offset) ==
    IF i >= count \/ offset + 16 > Len(data) THEN map
    ELSE CmapSubtables(CmapSubtable(map, data, offset), data, i + 1, count, offset + 16)

\* BINFontParser._parse_cmap_chunk on data = self.chunks['cmap']: font.unicode_to_glyph
\* becomes the insertion-ordered dict unicode -> glyph id (left alone when the
\* payload is shorter than the 12-byte inner header)
ParseCmapChunk(font, data) ==
    IF Len(data) < 12 THEN font
    ELSE [font EXCEPT !.unicode_to_glyph =
              CmapSubtables(<<>>, data, 0, ReadUint32(data, 8), 12)]

\* the offset table loop of _parse_glyf_chunks: glyph_count reads of 4 bytes, stopping
\* at the first that does not fit
RECURSIVE LocaPositions(_, _, _, _, _)
LocaPositions(loca_data, i, glyph_count, offset, positions) ==
    IF i >= glyph_count \/ ~(offset + 4 <= Len(loca_data)) THEN positions
    ELSE LocaPositions(loca_data, i + 1, glyph_count, offset + 4,
                       Append(positions, ReadUint32(loca_data, offset)))

\* the sizes of the reads of one glyph descriptor: adv_w, box_w, box_h, ofs_x, ofs_y
GlyphReads == <<2, 1, 1, 1, 1>>

\* the mutant of GlyfItem: the bitmap bytes are taken from the start of the glyph's
\* range, descriptor included
GlyfItemWholeRange(glyphs, unicode_val, glyph_id, positions, glyf_data, bpp) ==
    IF glyph_id >= Len(positions) - 1 THEN glyphs
    ELSE LET start_pos == positions[glyph_id + 1]
             end_pos == positions[glyph_id + 2]
             glyph_size == end_pos - start_pos
             at == 8 + start_pos
         IN  IF glyph_size = 0
             THEN Append(glyphs, GlyphInfo(unicode_val, at, 0, 0, 0, 0, 0))
             ELSE IF ~(glyph_size >= 6) THEN glyphs
             ELSE IF ~ReadsFit(glyf_data, at, GlyphReads, 1) THEN glyphs
             ELSE LET box_w == ReadUint8(glyf_data, at + 2)
                      box_h == ReadUint8(glyf_data, at + 3)
                      bitmap_data == Slice(glyf_data, at, at + (glyph_size - 6))
                      glyph == GlyphInfo(unicode_val, at, ReadUint16(glyf_data, at),
                                         box_w, box_h,
                                         ReadInt8(glyf_data, at + 4),
                                         ReadInt8(glyf_data, at + 5))
                      pixels == BinUnpackBitmap(bitmap_data, box_w, box_h, bpp)
                  IN  IF box_w > 0 /\ box_h > 0
                      THEN IF pixels.raise THEN glyphs
                           ELSE Append(glyphs,
                                    [glyph EXCEPT !.bitmap_data = Some(pixels.grid)])
                      ELSE Append(glyphs, glyph)

\* the mutant of GlyfItem: the bitmap is unpacked whatever the box is
GlyfItemNoBoxGuard(glyphs, unicode_val, glyph_id, positions, glyf_data, bpp) ==
    IF glyph_id >= Len(positions) - 1 THEN glyphs
    ELSE LET start_pos == positions[glyph_id + 1]
             end_pos == positions[glyph_id + 2]
             glyph_size == end_pos - start_pos
             at == 8 + start_pos
         IN  IF glyph_size = 0
             THEN Append(glyphs, GlyphInfo(unicode_val, at, 0, 0, 0, 0, 0))
             ELSE IF ~(glyph_size >= 6) THEN glyphs
             ELSE IF ~ReadsFit(glyf_data, at, GlyphReads, 1) THEN glyphs
             ELSE LET box_w == ReadUint8(glyf_data, at + 2)
                      box_h == ReadUint8(glyf_data, at + 3)
                      bitmap_data == Slice(glyf_data, at + 6, at + 6 + (glyph_size - 6))
                      glyph == GlyphInfo(unicode_val, at, ReadUint16(glyf_data, at),
                                         box_w, box_h,
                                         ReadInt8(glyf_data, at + 4),
                                         ReadInt8(glyf_data, at + 5))
                      pixels == BinUnpackBitmap(bitmap_data, box_w, box_h, bpp)
                  IN  IF pixels.raise THEN glyphs
                      ELSE Append(glyphs, [glyph EXCEPT !.bitmap_data = Some(pixels.grid)])

\* the body of the loop of _parse_glyf_chunks for one (unicode_val, glyph_id) item:
\* the glyph list after it
GlyfItem(glyphs, unicode_val, glyph_id, positions, glyf_data, bpp) ==
    IF glyph_id >= Len(positions) - 1 THEN glyphs
    ELSE LET start_pos == positions[glyph_id + 1]
             end_pos == positions[glyph_id + 2]
             glyph_size == end_pos - start_pos
             at == 8 + start_pos
         IN  IF glyph_size = 0
             THEN Append(glyphs, GlyphInfo(unicode_val, at, 0, 0, 0, 0, 0))
             ELSE IF ~(glyph_size >= 6) THEN glyphs
             ELSE IF ~ReadsFit(glyf_data, at, GlyphReads, 1) THEN glyphs
             ELSE LET box_w == ReadUint8(glyf_data, at + 2)
                      box_h == ReadUint8(glyf_data, at + 3)
                      bitmap_data == Slice(glyf_data, at + 6, at + 6 + (glyph_size - 6))
                      glyph == GlyphInfo(unicode_val, at, ReadUint16(glyf_data, at),
                                         box_w, box_h,
                                         ReadInt8(glyf_data, at + 4),
                                         ReadInt8(glyf_data, at + 5))
                      pixels == BinUnpackBitmap(bitmap_data, box_w, box_h, bpp)
                  IN  IF box_w > 0 /\ box_h > 0
                      THEN IF pixels.raise THEN glyphs
                           ELSE Append(glyphs,
                                    [glyph EXCEPT !.bitmap_data = Some(pixels.grid)])
                      ELSE Append(glyphs, glyph)

\* the loop of _parse_glyf_chunks over font_info.unicode_to_glyph.items()
RECURSIVE GlyfItems(_, _, _, _, _, _)
GlyfItems(glyphs, items, k, positions, glyf_data, bpp) ==
    IF k > Len(items) THEN glyphs
    ELSE GlyfItems(GlyfItem(glyphs, items[k][1], items[k][2], positions, glyf_data, bpp),
                   items, k + 1, positions, glyf_data, bpp)

\* BINFontParser._parse_glyf_chunks on self.chunks['loca'] and self.chunks['glyf']
ParseGlyfChunks(font, loca_data, glyf_data) ==
    IF Len(loca_data) < 12 THEN font
    ELSE LET positions == LocaPositions(loca_data, 0, ReadUint32(loca_data, 8), 12, <<>>)
         IN  [font EXCEPT
                 !.glyphs = GlyfItems(font.glyphs, font.unicode_to_glyph, 1,
                                      positions, glyf_data, font.bpp),
                 !.glyph_bitmap = glyf_data]

\* the try block of BINFontParser.parse run on a parser whose self.chunks is held:
\* [exc: the exception that left the block or "none", font: font_info, chunks:
\* self.chunks afterwards]
BinParseBody(held, file) ==
    IF ~file.readable THEN [exc |-> "OSError", font |-> FontInfoDefault, chunks |-> held]
    ELSE LET found == ReadChunks(file.data, 0, held)
             f0 == [FontInfoDefault EXCEPT !.file_path = file.path, !.file_type = "bin"]
             h == IF TagHead \in DOMAIN found THEN ParseHeadChunk(f0, found[TagHead])
                  ELSE [exc |-> "none", font |-> f0]
         IN  IF h.exc # "none" THEN [exc |-> h.exc, font |-> h.font, chunks |-> found]
             ELSE LET f1 == IF TagCmap \in DOMAIN found
                            THEN ParseCmapChunk(h.font, found[TagCmap]) ELSE h.font
                      f2 == IF TagLoca \in DOMAIN found /\ TagGlyf \in DOMAIN found
                            THEN ParseGlyfChunks(f1, found[TagLoca], found[TagGlyf])
                            ELSE f1
                  IN  [exc |-> "none", font |-> BuildIndex(f2), chunks |-> found]

\* the classes `except Exception` catches
Caught == {"OSError", "struct.error", "ValueError", "UnicodeDecodeError"}

\* the mutant of Handle: the except clause catches only OSError
HandleOSErrorOnly(body) ==
    IF body.exc = "none" THEN [raised |-> FALSE, result |-> Some(body.font)]
    ELSE IF body.exc = "OSError" THEN [raised |-> FALSE, result |-> None]
    ELSE [raised |-> TRUE, result |-> None]

\* parse(): try: ... return font_info / except Exception: ... return None
Handle(body) ==
    IF body.exc = "none" THEN [raised |-> FALSE, result |-> Some(body.font)]
    ELSE IF body.exc \in Caught THEN [raised |-> FALSE, result |-> None]
    ELSE [raised |-> TRUE, result |-> None]

\* BINFontParser.parse
BinParse(held, file) == Handle(BinParseBody(held, file))

(***************************************************************************)
(* CFontParser.  A source file is given by what the parser's patterns find *)
(* in it: each field is None when its pattern has no match.                *)
(***************************************************************************)
\* CFontParser._parse_basic_info
ParseBasicInfo(font, file) ==
    [font EXCEPT
        !.font_size = IF file.size.none THEN @ ELSE file.size.val,
        !.bpp = IF file.bpp.none THEN @ ELSE file.bpp.val,
        !.font_name = IF file.font_name.none THEN @ ELSE file.font_name.val]

\* CFontParser._parse_bitmap: bytes([...]) raises ValueError on a value above 255
ParseBitmap(font, file) ==
    IF file.bitmap.none THEN [exc |-> "none", font |-> font]
    ELSE IF \E i \in 1..Len(file.bitmap.val) : file.bitmap.val[i] > 255
         THEN [exc |-> "ValueError", font |-> font]
         ELSE [exc |-> "none", font |-> [font EXCEPT !.glyph_bitmap = file.bitmap.val]]

\* CFontParser._parse_glyph_descriptors: one GlyphInfo per descriptor, in order,
\* unicode = 0
ParseGlyphDescriptors(font, file) ==
    IF file.dsc.none THEN font
    ELSE [font EXCEPT !.glyphs = @ \o
             [i \in 1..Len(file.dsc.val) |->
                 GlyphInfo(0, file.dsc.val[i].bitmap_index, file.dsc.val[i].adv_w,
                           file.dsc.val[i].box_w, file.dsc.val[i].box_h,
                           file.dsc.val[i].ofs_x, file.dsc.val[i].ofs_y)]]

\* CFontParser._parse_array: the integers of the named array, or None
ParseArray(file, array_name) ==
    IF array_name \in DOMAIN file.arrays THEN Some(file.arrays[array_name]) ELSE None

\* a list name of a cmap block resolved: None when absent, "NULL" or not found
ResolveList(file, name) ==
    IF name.none \/ name.val = "NULL" THEN None ELSE ParseArray(file, name.val)

\* `if lst:` on an optional list
Truthy(lst) == ~lst.none /\ Len(lst.val) > 0

\* CmapRange(range_start=..., range_length=..., glyph_id_start=...)
CmapRange(range_start, range_length, glyph_id_start) ==
    [range_start |-> range_start, range_length |-> range_length,
     glyph_id_start |-> glyph_id_start, unicode_list |-> None,
     glyph_id_ofs_list |-> None, list_length |-> 0, cmap_type |-> "FORMAT0_TINY"]

\* the type of a cmap block: "FORMAT0_TINY" when the .type pattern has no match
BlockType(block) == IF block.type.none THEN "FORMAT0_TINY" ELSE block.type.val

\* the number of iterations of the loop _parse_single_cmap runs for the block
CmapLoopCount(block, unicode_list, glyph_id_ofs_list) ==
    LET range_length == block.range_length.val IN
    CASE BlockType(block) = "FORMAT0_TINY" -> range_length
      [] BlockType(block) = "FORMAT0_FULL" ->
            IF Truthy(glyph_id_ofs_list)
            THEN Min(range_length, Len(glyph_id_ofs_list.val)) ELSE 0
      [] BlockType(block) = "SPARSE_TINY" ->
            IF Truthy(unicode_list)
            THEN Min(range_length, Len(unicode_list.val)) ELSE 0
      [] BlockType(block) = "SPARSE_FULL" ->
            IF Truthy(unicode_list) /\ Truthy(glyph_id_ofs_list)
            THEN Min(range_length, Min(Len(unicode_list.val), Len(glyph_id_ofs_list.val)))
            ELSE 0
      [] OTHER -> 0

\* the mutant of CmapLoopPair: FORMAT0_FULL forgets glyph_id_ofs_list
CmapLoopPairFullAsTiny(block, unicode_list, glyph_id_ofs_list, i) ==
    LET range_start == block.range_start.val
        glyph_id_start == block.glyph_id_start.val
    IN  CASE BlockType(block) = "FORMAT0_TINY" -> <<range_start + i, glyph_id_start + i>>
          [] BlockType(block) = "FORMAT0_FULL" -> <<range_start + i, glyph_id_start + i>>
          [] BlockType(block) = "SPARSE_TINY" ->
                <<range_start + unicode_list.val[i + 1], glyph_id_start + i>>
          [] BlockType(block) = "SPARSE_FULL" ->
                <<range_start + unicode_list.val[i + 1],
                  glyph_id_start + glyph_id_ofs_list.val[i + 1]>>

\* <<unicode_val, glyph_id>> of iteration i (from 0) of that loop
CmapLoopPair(block, unicode_list, glyph_id_ofs_list, i) ==
    LET range_start == block.range_start.val
        glyph_id_start == block.glyph_id_start.val
    IN  CASE BlockType(block) = "FORMAT0_TINY" -> <<range_start + i, glyph_id_start + i>>
          [] BlockType(block) = "FORMAT0_FULL" ->
                <<range_start + i, glyph_id_start + glyph_id_ofs_list.val[i + 1]>>
          [] BlockType(block) = "SPARSE_TINY" ->
                <<range_start + unicode_list.val[i + 1], glyph_id_start + i>>
          [] BlockType(block) = "SPARSE_FULL" ->
                <<range_start + unicode_list.val[i + 1],
                  glyph_id_start + glyph_id_ofs_list.val[i + 1]>>

\* the pairs the block resolves, in loop order
CmapPairs(file, block) ==
    LET unicode_list == ResolveList(file, block.unicode_list)
        glyph_id_ofs_list == ResolveList(file, block.glyph_id_ofs_list)
    IN  [k \in 1..CmapLoopCount(block, unicode_list, glyph_id_ofs_list) |->
            CmapLoopPair(block, unicode_list, glyph_id_ofs_list, k - 1)]

\* the loop body: if glyph_id < len(font_info.glyphs): glyphs[glyph_id].unicode = ...
RECURSIVE AssignUnicode(_, _, _)
AssignUnicode(glyphs, pairs, k) ==
    IF k > Len(pairs) THEN glyphs
    ELSE AssignUnicode(IF pairs[k][2] < Len(glyphs)
                       THEN [glyphs EXCEPT ![pairs[k][2] + 1].unicode = pairs[k][1]]
                       ELSE glyphs,
                       pairs, k + 1)

\* whether the three required fields of a cmap block were all found
BlockComplete(block) ==
    ~block.range_start.none /\ ~block.range_length.none /\ ~block.glyph_id_start.none

\* CFontParser._parse_single_cmap
ParseSingleCmap(font, file, block) ==
    IF ~BlockComplete(block) THEN font
    ELSE [font EXCEPT
             !.cmap_ranges = Append(@, CmapRange(block.range_start.val,
                                                 block.range_length.val,
                                                 block.glyph_id_start.val)),
             !.glyphs = AssignUnicode(@, CmapPairs(file, block), 1)]

\* CFontParser._parse_cmap: the blocks of the cmaps array, in source order
RECURSIVE ParseCmapBlocks(_, _, _, _)
ParseCmapBlocks(font, file, blocks, k) ==
    IF k > Len(blocks) THEN font
    ELSE ParseCmapBlocks(ParseSingleCmap(font, file, blocks[k]), file, blocks, k + 1)

ParseCmap(font, file) ==
    IF file.cmaps.none THEN font ELSE ParseCmapBlocks(font, file, file.cmaps.val, 1)

\* CFontParser._parse_font_header
ParseFontHeader(font, file) ==
    [font EXCEPT
        !.line_height = IF file.line_height.none THEN @ ELSE file.line_height.val,
        !.base_line = IF file.base_line.none THEN @ ELSE file.base_line.val,
        !.subpx = IF file.subpx.none THEN @ ELSE file.subpx.val]

\* the loop of _extract_glyph_bitmaps from glyph k on; _unpack_bitmap is called
\* outside any try, so its exception leaves the method
RECURSIVE ExtractFrom(_, _, _)
ExtractFrom(glyphs, font, k) ==
    IF k > Len(glyphs) THEN [exc |-> "none", glyphs |-> glyphs]
    ELSE LET glyph == glyphs[k]
             byte_count == CalculateBitmapBytes(glyph.box_w * glyph.box_h, font.bpp)
             byte_index == glyph.bitmap_index
         IN  IF glyph.box_w = 0 \/ glyph.box_h = 0 THEN ExtractFrom(glyphs, font, k + 1)
             ELSE IF byte_index + byte_count > Len(font.glyph_bitmap)
                  THEN ExtractFrom(glyphs, font, k + 1)
             ELSE LET pixels == CUnpackBitmap(
                                    Slice(font.glyph_bitmap, byte_index,
                                          byte_index + byte_count),
                                    glyph.box_w, glyph.box_h, font.bpp)
                  IN  IF pixels.raise THEN [exc |-> "ValueError", glyphs |-> glyphs]
                      ELSE ExtractFrom(
                               [glyphs EXCEPT ![k].bitmap_data = Some(pixels.grid)],
                               font, k + 1)

\* CFontParser._extract_glyph_bitmaps
ExtractGlyphBitmaps(font) ==
    IF Len(font.glyph_bitmap) = 0 THEN [exc |-> "none", font |-> font]
    ELSE LET r == ExtractFrom(font.glyphs, font, 1) IN
         [exc |-> r.exc, font |-> [font EXCEPT !.glyphs = r.glyphs]]

\* the try block of CFontParser.parse
CParseBody(file) ==
    IF ~file.readable THEN [exc |-> "OSError", font |-> FontInfoDefault]
    ELSE LET f0 == [FontInfoDefault EXCEPT !.file_path = file.path, !.file_type = "c"]
             b == ParseBitmap(ParseBasicInfo(f0, file), file)
         IN  IF b.exc # "none" THEN b
             ELSE ExtractGlyphBitmaps(
                      BuildIndex(
                          ParseFontHeader(
                              ParseCmap(ParseGlyphDescriptors(b.font, file), file),
                              file)))

\* CFontParser.parse
CParse(file) == Handle(CParseBody(file))

(***************************************************************************)
(* load_font's choice of parser.  An extension is the string               *)
(* os.path.splitext(file_path)[1], as the sequence of its character codes. *)
(***************************************************************************)
\* str.lower() on ASCII
Lower(e) == [i \in 1..Len(e) |-> IF e[i] \in 65..90 THEN e[i] + 32 ELSE e[i]]

\* '.c' and '.bin'
ExtC == <<46, 99>>
ExtBin == <<46, 98, 105, 110>>

\* the mutant of Dispatch: the extension is compared without .lower()
DispatchCaseSensitive(ext) ==
    IF ext = ExtC THEN "c" ELSE IF ext = ExtBin THEN "bin" ELSE "none"

\* the parser load_font picks for an extension: "c", "bin", or "none" (rejected)
Dispatch(ext) ==
    IF Lower(ext) = ExtC THEN "c" ELSE IF Lower(ext) = ExtBin THEN "bin" ELSE "none"

\* the file names tried, each with its extension: font.bin, font.BIN, font.Bin,
\* font.c, font.C, font.txt, font.h, font.binx and font (no extension)
PathNames ==
    {<<"font.bin", ExtBin>>, <<"font.BIN", <<46, 66, 73, 78>>>>,
     <<"font.Bin", <<46, 66, 105, 110>>>>,
     <<"font.c", ExtC>>, <<"font.C", <<46, 67>>>>,
     <<"font.txt", <<46, 116, 120, 116>>>>, <<"font.h", <<46, 104>>>>,
     <<"font.binx", <<46, 98, 105, 110, 120>>>>, <<"font", <<>>>>}

\* a file under one of these names
Named(f, n) == [f EXCEPT !.path = n[1], !.ext = n[2]]

(***************************************************************************)
(* Input files.  A binary file is built from the layouts the parser        *)
(* documents; parts and tail record how it was put together.               *)
(***************************************************************************)
LE16(n) == <<n % 256, (n \div 256) % 256>>
LE32(n) == <<n % 256, (n \div 256) % 256, (n \div 65536) % 256, (n \div 16777216) % 256>>
Pad(k) == [i \in 1..k |-> 0]

RECURSIVE Flatten(_)
Flatten(seqs) == IF Len(seqs) = 0 THEN <<>> ELSE Head(seqs) \o Flatten(Tail(seqs))

\* a chunk: uint32 size (itself and the name included), char[4] name, data
Chunk(name, payload) == LE32(Len(payload) + 8) \o name \o payload

\* the pieces byte buffers are put together from: five well-formed chunks (one with
\* no data, two of one tag, two whose names decode to 'ab'), a size below 8, a size
\* of 0, a size past the end, a size of 2^30 + 1, 3 stray bytes, a size with half
\* a name
BufferPieces ==
    {Chunk(TagHead, <<>>), Chunk(TagHead, <<7>>), Chunk(TagCmap, <<1, 2>>),
     Chunk(<<97, 98, 0, 0>>, <<5>>), Chunk(<<200, 97, 98, 0>>, <<6>>),
     LE32(7) \o TagHead, LE32(0) \o TagGlyf, LE32(100) \o TagGlyf \o <<1>>,
     <<1, 0, 0, 64>> \o TagLoca, <<9, 0, 0>>, LE32(8) \o <<104, 101>>}

\* the byte buffers tried: up to MaxPieces pieces on end
RECURSIVE BuffersOf(_)
BuffersOf(n) ==
    IF n = 0 THEN {<<>>}
    ELSE BuffersOf(n - 1) \cup {b \o q : b \in BuffersOf(n - 1), q \in BufferPieces}

Buffers == BuffersOf(MaxPieces)

\* a head payload: font_size, ascent, descent and bpp at their places, 40 bytes
HeadPayload(font_size, ascent, descent, bpp) ==
    LE32(1) \o LE16(4) \o LE16(font_size) \o LE16(ascent) \o LE16((descent + 65536) % 65536)
        \o Pad(14) \o <<0, 0, 0, bpp>> \o Pad(10)

\* a cmap subtable: its header fields, its data and how far its declared offset
\* lies beyond where the data really is
Sub(type, range_start, range_len, glyph_id_offset, total, data, skew) ==
    [type |-> type, range_start |-> range_start, range_len |-> range_len,
     glyph_id_offset |-> glyph_id_offset, total |-> total, data |-> data, skew |-> skew]

\* a cmap payload: inner size, label, count, the 16-byte headers, the data
CmapPayload(subs) ==
    LET n == Len(subs)
        dataAt(k) == 12 + 16 * n + Len(Flatten([j \in 1..(k - 1) |-> subs[j].data]))
        header(k) == LE32(dataAt(k) + subs[k].skew) \o LE32(subs[k].range_start)
                         \o LE16(subs[k].range_len) \o LE16(subs[k].glyph_id_offset)
                         \o LE16(subs[k].total) \o <<subs[k].type, 0>>
        body == Flatten([k \in 1..n |-> header(k)]) \o Flatten([k \in 1..n |-> subs[k].data])
    IN  LE32(12 + Len(body)) \o TagCmap \o LE32(n) \o body

\* the box of glyph id g in the files tried: glyph 2 has no width, glyph 3 no height
BoxW(g) == IF g = 2 THEN 0 ELSE 2
BoxH(g) == IF g = 3 THEN 0 ELSE 1 + (g % 2)

\* the bytes of glyph id g in glyf: glyph 0 is empty, the others are a 6-byte
\* descriptor (adv_w, box_w, box_h, ofs_x, ofs_y) and two bitmap bytes
GlyphBytes(g) ==
    IF g = 0 THEN <<>>
    ELSE LE16(16 * g) \o <<BoxW(g), BoxH(g), 1, 255>> \o <<171, 16 + g>>

\* a loca payload for count glyphs: inner size, label, count, count + 1 offsets
LocaPayload(count) ==
    LET offsets == [k \in 1..(count + 1) |->
                       LE32(Len(Flatten([g \in 1..(k - 1) |-> GlyphBytes(g - 1)])))]
    IN  LE32(12 + 4 * (count + 1)) \o TagLoca \o LE32(count) \o Flatten(offsets)

\* a glyf payload for count glyphs: inner size, label, the glyphs in glyph id order
GlyfPayload(count) ==
    LET body == Flatten([g \in 1..count |-> GlyphBytes(g - 1)])
    IN  LE32(8 + Len(body)) \o TagGlyf \o body

\* a 40-byte head payload with font_size at bytes 6-7, ascent at 8-9, descent at
\* 10-11 and bpp at byte 29 (counted from 0); every other byte holds a value of its own
HeadWith(font_size, ascent, descent, bpp) ==
    LET fields == Pad(6) \o LE16(font_size) \o LE16(ascent) \o LE16((descent + 65536) % 65536)
                      \o Pad(17) \o <<bpp>> \o Pad(10)
    IN  [i \in 1..40 |-> IF i \in {7, 8, 9, 10, 11, 12, 30} THEN fields[i] ELSE 200 + i]

\* the head chunks tried: a complete one per bpp, one cut to 10 bytes, and one whose
\* other fields (kerning scale, compression, subpixel mode, underline, ...) are set
HeadBpps == {3, 4, 8}
HeadOpts ==
    {<<>>} \cup {<<[name |-> TagHead, payload |-> HeadPayload(16, 14, -3, b)]>> : b \in HeadBpps}
           \cup {<<[name |-> TagHead, payload |-> SubSeq(HeadPayload(16, 14, -3, 4), 1, 10)]>>,
                 <<[name |-> TagHead, payload |-> HeadWith(16, 14, -3, 4)]>>}

\* the cmap chunks tried
CmapSubs ==
    {<<Sub(2, 65, MaxRangeLen, g, 0, <<>>, 0)>> : g \in {0, 1}}
    \cup {<<Sub(2, 65, 1, 1, 0, <<>>, 0), Sub(2, 65, 1, 0, 0, <<>>, 0)>>,
          <<Sub(0, 65, 2, 0, 2, <<1, 0>>, 0)>>,
          <<Sub(3, 65, 2, 0, 2, LE16(0) \o LE16(5), 0)>>,
          <<Sub(1, 65, 2, 0, 2, LE16(0) \o LE16(5) \o LE16(1) \o LE16(0), 0)>>,
          <<Sub(0, 65, 2, 0, 2, <<1, 0>>, 100), Sub(2, 70, 1, 1, 0, <<>>, 0)>>,
          <<Sub(2, 65, 1, 200, 0, <<>>, 0)>>,
          <<Sub(2, 65, 1, 1, 0, <<>>, 0), Sub(2, 65, 1, 200, 0, <<>>, 0)>>,
          <<Sub(0, 65, 3, 0, 3, <<0, 1, 2>>, 0)>>,
          <<Sub(0, 65, 2, 0, 1, <<1>>, 0)>>,
          <<Sub(0, 65, 2, 0, 100, <<1, 0>>, 0)>>,
          <<Sub(3, 65, 2, 0, 2, LE16(0) \o LE16(5), 2), Sub(2, 70, 1, 1, 0, <<>>, 0)>>,
          <<Sub(1, 65, 2, 0, 2, LE16(0) \o LE16(5) \o LE16(1) \o LE16(0), 2),
            Sub(2, 70, 1, 1, 0, <<>>, 0)>>,
          <<Sub(7, 65, 2, 0, 2, <<>>, 0), Sub(2, 70, 1, 1, 0, <<>>, 0)>>,
          <<Sub(2, 65, 2, MaxGlyphs - 2, 0, <<>>, 0)>>,
          <<Sub(2, 65, 1, 1, 0, <<>>, 0), Sub(2, 66, 1, 200, 0, <<>>, 0)>>}
CmapOpts ==
    {<<>>} \cup {<<[name |-> TagCmap, payload |-> CmapPayload(subs), subs |-> subs]>> :
                    subs \in CmapSubs}
           \cup {<<[name |-> TagCmap, payload |-> LE32(8) \o TagCmap]>>}

\* the loca and glyf chunks tried: both, one alone, a loca cut to 8 bytes, a loca
\* that ends after glyph_count, a glyf that ends inside its last glyph
LocaGlyfOpts ==
    LET loca == [name |-> TagLoca, payload |-> LocaPayload(MaxGlyphs)]
        glyf == [name |-> TagGlyf, payload |-> GlyfPayload(MaxGlyphs)]
    IN  {<<>>, <<loca>>, <<glyf>>, <<loca, glyf>>,
         <<[loca EXCEPT !.payload = SubSeq(@, 1, 8)], glyf>>,
         <<[loca EXCEPT !.payload = SubSeq(@, 1, 12)], glyf>>,
         <<loca, [glyf EXCEPT !.payload = SubSeq(@, 1, Len(@) - 5)]>>}

\* what follows the complete chunks: nothing, a chunk that declares 100 bytes and
\* holds 4, or 3 stray bytes
TailOpts == {"none", "short", "stray"}
TailBytes(tail) ==
    CASE tail = "none" -> <<>>
      [] tail = "short" -> LE32(100) \o TagGlyf \o <<1, 2, 3, 4>>
      [] tail = "stray" -> <<9, 0, 0>>

BinFile(parts, tail) ==
    [path |-> "font.bin", ext |-> ExtBin, readable |-> TRUE, parts |-> parts, tail |-> tail,
     data |-> Flatten([k \in 1..Len(parts) |-> Chunk(parts[k].name, parts[k].payload)])
                  \o TailBytes(tail)]

BinFiles ==
    {BinFile(h \o c \o lg, t) : h \in HeadOpts, c \in CmapOpts, lg \in LocaGlyfOpts,
                                t \in TailOpts}
    \cup {[BinFile(<<>>, "none") EXCEPT !.readable = FALSE]}

\* files of one head chunk, over the ends of the ranges of its fields
HeadFiles ==
    {BinFile(<<[name |-> TagHead, payload |-> HeadWith(fs, a, d, b)]>>, "none") :
        fs \in {8, 16, 300}, a \in {0, 14, 65535}, d \in {-32768, -3, 0, 5}, b \in {1, 4}}

\* the files a parser instance is handed when it is used a second time
ReuseBinFiles ==
    {BinFile(h \o c \o lg, "none") :
        h \in {<<>>} \cup {<<[name |-> TagHead, payload |-> HeadPayload(16, 14, -3, b)]>> :
                              b \in HeadBpps},
        c \in {<<>>, <<[name |-> TagCmap,
                        payload |-> CmapPayload(<<Sub(2, 65, MaxRangeLen, 0, 0, <<>>, 0)>>)]>>},
        lg \in {<<>>, <<[name |-> TagLoca, payload |-> LocaPayload(MaxGlyphs)],
                        [name |-> TagGlyf, payload |-> GlyfPayload(MaxGlyphs)]>>}}

\* a cmap block as the patterns of _parse_single_cmap see it
Block(range_start, range_length, glyph_id_start, type, unicode_list, glyph_id_ofs_list) ==
    [range_start |-> range_start, range_length |-> range_length,
     glyph_id_start |-> glyph_id_start, type |-> type,
     unicode_list |-> unicode_list, glyph_id_ofs_list |-> glyph_id_ofs_list]

TinyBlocks ==
    {Block(Some(s), Some(n), Some(g), Some("FORMAT0_TINY"), Some("NULL"), Some("NULL")) :
        s \in {65, 66}, n \in 0..MaxRangeLen, g \in {1, 2}}

ListBlocks ==
    {Block(Some(65), Some(2), Some(0), Some("FORMAT0_FULL"), Some("NULL"), Some("ofs")),
     Block(Some(65), Some(2), Some(1), Some("SPARSE_TINY"), Some("uni"), Some("NULL")),
     Block(Some(65), Some(3), Some(0), Some("SPARSE_FULL"), Some("uni"), Some("ofs")),
     Block(Some(65), Some(2), Some(0), Some("FORMAT0_FULL"), None, Some("missing")),
     Block(Some(65), Some(1), Some(200), None, None, None),
     Block(Some(65), None, Some(0), Some("FORMAT0_TINY"), None, None),
     Block(Some(65), Some(2), Some(0), Some("OTHER"), None, None)}

CmapBlocks == TinyBlocks \cup ListBlocks

\* the cmaps arrays tried: none, one block, two blocks
CmapsOpts ==
    {None} \cup {Some(<<b>>) : b \in CmapBlocks}
           \cup {Some(<<a, b>>) : a \in CmapBlocks, b \in CmapBlocks}

\* the auxiliary arrays every source file tried declares
SourceArrays ==
    [n \in {"uni", "ofs", "ofs3"} |->
        CASE n = "uni" -> <<0, 5, 10>> [] n = "ofs" -> <<1, 0>> [] n = "ofs3" -> <<2, 3, 4>>]

\* the descriptor of glyph id g: glyph 0 is the reserved empty glyph
Descriptor(g) ==
    IF g = 0
    THEN [bitmap_index |-> 0, adv_w |-> 0, box_w |-> 0, box_h |-> 0, ofs_x |-> 0, ofs_y |-> 0]
    ELSE [bitmap_index |-> 2 * (g - 1), adv_w |-> 16 * g, box_w |-> BoxW(g), box_h |-> BoxH(g),
          ofs_x |-> 1, ofs_y |-> -1]

\* descriptors whose bitmaps lie near the end of a six-byte array: glyph 1 (2x2) at
\* byte 5, glyph 2 (2x1) at byte 4, glyph 3 (1x1) at byte 0
DescriptorLate(g) ==
    IF g = 0 THEN Descriptor(0)
    ELSE [bitmap_index |-> (IF g = 1 THEN 5 ELSE IF g = 2 THEN 4 ELSE 0), adv_w |-> 16 * g,
          box_w |-> (IF g = 3 THEN 1 ELSE 2), box_h |-> (IF g = 1 THEN 2 ELSE 1),
          ofs_x |-> 1, ofs_y |-> -1]

DscOpts == {None, Some([k \in 1..MaxGlyphs |-> Descriptor(k - 1)]),
            Some([k \in 1..MaxGlyphs |-> DescriptorLate(k - 1)])}

\* the glyph_bitmap arrays tried: none, six bytes, two bytes, one with a literal
\* above 0xFF
BitmapOpts == {None, Some(<<171, 176, 27, 255, 0, 18>>), Some(<<171, 176>>),
               Some(<<171, 256>>)}

\* the Bpp comment tried: none, or one of these values
SourceBpps == {1, 3, 4, 8}

CFile(bpp, labelled, bitmap, dsc, cmaps) ==
    [path |-> "font.c", ext |-> ExtC, readable |-> TRUE,
     size |-> IF labelled THEN Some(16) ELSE None,
     bpp |-> bpp,
     font_name |-> IF labelled THEN Some("lv_font_16") ELSE None,
     bitmap |-> bitmap, dsc |-> dsc, cmaps |-> cmaps, arrays |-> SourceArrays,
     line_height |-> IF labelled THEN Some(17) ELSE None,
     base_line |-> IF labelled THEN Some(3) ELSE None,
     subpx |-> IF labelled THEN Some("HOR") ELSE None]

CFiles ==
    {CFile(Some(b), TRUE, bm, d, c) :
        b \in SourceBpps, bm \in BitmapOpts, d \in DscOpts, c \in CmapsOpts}
    \cup {CFile(None, FALSE, bm, d, None) : bm \in BitmapOpts, d \in DscOpts}
    \cup {[CFile(None, FALSE, None, None, None) EXCEPT !.readable = FALSE]}

\* source files whose one range is SPARSE_FULL from 0x41 with glyph_id_start 100,
\* unicode offsets [0,5,10] and glyph offsets [2,3,4]
ExampleCFiles ==
    {CFile(Some(4), TRUE, bm, d,
           Some(<<Block(Some(65), Some(3), Some(100), Some("SPARSE_FULL"),
                        Some("uni"), Some("ofs3"))>>)) : bm \in BitmapOpts, d \in DscOpts}

ReuseCFiles ==
    {CFile(b, TRUE, bm, d, None) : b \in {None, Some(4)}, bm \in BitmapOpts, d \in DscOpts}

\* the sample values tried at a bit depth: none, all and alternate bits set
SampleVals(bpp) == {0, 2 ^ bpp - 1, (2 * (2 ^ bpp - 1)) \div 3}

\* the grids of height rows of width such samples
Grids(width, height, bpp) == [1..height -> [1..width -> SampleVals(bpp)]]

\* the byte number b (from 0) of the packing of the row-major samples flat: sample
\* b*(8/bpp) + j is bit field j from the top, a field past the last sample is 0
RECURSIVE PackByte(_, _, _, _)
PackByte(flat, bpp, b, j) ==
    IF j >= 8 \div bpp THEN 0
    ELSE LET k == b * (8 \div bpp) + j IN
         (IF k < Len(flat) THEN flat[k + 1] * 2 ^ (8 - bpp * (j + 1)) ELSE 0)
             + PackByte(flat, bpp, b, j + 1)

\* pack: the samples of a grid row-major, most significant bits first, the last
\* byte padded with zero bits
Pack(grid, width, height, bpp) ==
    LET flat == [k \in 1..(width * height) |->
                    grid[((k - 1) \div width) + 1][((k - 1) % width) + 1]]
    IN  [b \in 1..((width * height * bpp + 7) \div 8) |-> PackByte(flat, bpp, b - 1, 0)]

\* the _unpack_bitmap calls tried
ByteVals == {171, 176, 27}
UnpackBpps == {0, 1, 2, 3, 4, 8}
UnpackInputs ==
    [data : UNION {[1..k -> ByteVals] : k \in 0..MaxBytes},
     width : 0..MaxW, height : 0..MaxH, bpp : UnpackBpps]

(***************************************************************************)
(* The state machine.  load_font makes a parser and calls parse() once;    *)
(* the codec is also driven directly.                                      *)
(***************************************************************************)
NoFile == [path |-> "", readable |-> FALSE]
NoCall == [data |-> <<>>, width |-> 0, height |-> 0, bpp |-> 0]

fontVars == <<pc, kind, input, chunks, calls, ret>>
codecVars == <<u_in, u_impl, u_out, u_grid>>
stepVars == <<self_offset, iters>>

Init ==
    /\ pc = "idle" /\ kind = "none" /\ input = NoFile
    /\ chunks = EmptyDict /\ calls = 0 /\ ret = None
    /\ u_in = NoCall /\ u_impl = "none" /\ u_out = None /\ u_grid = <<>>
    /\ self_offset = 0 /\ iters = 0

\* parser = BINFontParser(); parser.parse(file_path) is entered
EnterBin(files) ==
    /\ pc = "idle"
    /\ \E f \in files, n \in PathNames : Dispatch(n[2]) = "bin" /\ input' = Named(f, n)
    /\ pc' = "parsing" /\ kind' = "bin" /\ chunks' = EmptyDict /\ calls' = 0
    /\ ret' = None
    /\ UNCHANGED codecVars
    /\ UNCHANGED stepVars

\* parser = CFontParser(); parser.parse(file_path) is entered
EnterC(files) ==
    /\ pc = "idle"
    /\ \E f \in files, n \in PathNames : Dispatch(n[2]) = "c" /\ input' = Named(f, n)
    /\ pc' = "parsing" /\ kind' = "c" /\ chunks' = EmptyDict /\ calls' = 0
    /\ ret' = None
    /\ UNCHANGED codecVars
    /\ UNCHANGED stepVars

\* BINFontParser.parse runs to its end
ParseBin ==
    /\ pc = "parsing" /\ kind = "bin"
    /\ ret' = BinParse(chunks, input)
    /\ chunks' = BinParseBody(chunks, input).chunks
    /\ calls' = calls + 1
    /\ pc' = "done"
    /\ UNCHANGED <<kind, input>>
    /\ UNCHANGED codecVars
    /\ UNCHANGED stepVars

\* CFontParser.parse runs to its end
ParseC ==
    /\ pc = "parsing" /\ kind = "c"
    /\ ret' = CParse(input)
    /\ calls' = calls + 1
    /\ pc' = "done"
    /\ UNCHANGED <<kind, input, chunks>>
    /\ UNCHANGED codecVars
    /\ UNCHANGED stepVars

\* load_font on a file of any content whose extension is neither: it returns at
\* once, no parser is made and the file is not opened
Reject(files) ==
    /\ pc = "idle"
    /\ \E f \in files, n \in PathNames : Dispatch(n[2]) = "none" /\ input' = Named(f, n)
    /\ pc' = "rejected"
    /\ UNCHANGED <<kind, chunks, calls, ret>>
    /\ UNCHANGED codecVars
    /\ UNCHANGED stepVars

\* load_font returns: the parser and the result go out of scope
Leave ==
    /\ pc \in {"done", "rejected"}
    /\ pc' = "idle" /\ kind' = "none" /\ input' = NoFile
    /\ chunks' = EmptyDict /\ calls' = 0 /\ ret' = None
    /\ UNCHANGED codecVars
    /\ UNCHANGED stepVars

Next ==
    \/ EnterBin(BinFiles)
    \/ EnterC(CFiles \cup ExampleCFiles)
    \/ Reject(BinFiles \cup CFiles)
    \/ ParseBin
    \/ ParseC
    \/ Leave

Spec == Init /\ [][Next]_vars

\* load_font on files that hold one head chunk
NextHead ==
    \/ EnterBin(HeadFiles)
    \/ ParseBin
    \/ Leave

SpecHead == Init /\ [][NextHead]_vars

\* the same parser instance is handed another file
MaxCalls == 2
ParseAgain ==
    /\ pc = "done" /\ calls < MaxCalls
    /\ \E f \in (IF kind = "bin" THEN ReuseBinFiles ELSE ReuseCFiles) : input' = f
    /\ pc' = "parsing" /\ ret' = None
    /\ UNCHANGED <<kind, chunks, calls>>
    /\ UNCHANGED codecVars
    /\ UNCHANGED stepVars

NextReuse ==
    \/ EnterBin(ReuseBinFiles)
    \/ EnterC(ReuseCFiles)
    \/ ParseBin
    \/ ParseC
    \/ ParseAgain
    \/ Leave

SpecReuse == Init /\ [][NextReuse]_vars

\* _unpack_bitmap called directly
InitCodec ==
    /\ pc = "idle" /\ kind = "none" /\ input = NoFile
    /\ chunks = EmptyDict /\ calls = 0 /\ ret = None
    /\ u_in \in UnpackInputs /\ u_impl = "none" /\ u_out = None /\ u_grid = <<>>
    /\ self_offset = 0 /\ iters = 0

CallBinUnpack ==
    /\ u_impl = "none"
    /\ u_impl' = "bin"
    /\ u_out' = BinUnpackBitmap(u_in.data, u_in.width, u_in.height, u_in.bpp)
    /\ UNCHANGED <<u_in, u_grid>>
    /\ UNCHANGED fontVars
    /\ UNCHANGED stepVars

CallCUnpack ==
    /\ u_impl = "none"
    /\ u_impl' = "c"
    /\ u_out' = CUnpackBitmap(u_in.data, u_in.width, u_in.height, u_in.bpp)
    /\ UNCHANGED <<u_in, u_grid>>
    /\ UNCHANGED fontVars
    /\ UNCHANGED stepVars

NextCodec == CallBinUnpack \/ CallCUnpack

SpecCodec == InitCodec /\ [][NextCodec]_vars

\* _unpack_bitmap called on the bytes a grid of valid samples packs to
InitPack ==
    /\ pc = "idle" /\ kind = "none" /\ input = NoFile
    /\ chunks = EmptyDict /\ calls = 0 /\ ret = None
    /\ u_impl = "none" /\ u_out = None
    /\ self_offset = 0 /\ iters = 0
    /\ \E w \in 0..MaxW, h \in 0..MaxH, b \in {1, 2, 4, 8} :
          /\ w * h <= MaxCells
          /\ u_grid \in Grids(w, h, b)
          /\ u_in = [data |-> Pack(u_grid, w, h, b), width |-> w, height |-> h, bpp |-> b]

SpecPack == InitPack /\ [][NextCodec]_vars

\* _read_chunks followed one loop iteration at a time on a fresh parser
InitChunks ==
    /\ pc = "reading" /\ kind = "bin"
    /\ \E b \in Buffers :
          input = [path |-> "font.bin", ext |-> ExtBin, readable |-> TRUE, data |-> b]
    /\ chunks = EmptyDict /\ calls = 0 /\ ret = None
    /\ u_in = NoCall /\ u_impl = "none" /\ u_out = None /\ u_grid = <<>>
    /\ self_offset = 0 /\ iters = 0

\* while self.offset < len(self.data): one iteration of the body
ReadChunksIterate ==
    /\ pc = "reading" /\ self_offset < Len(input.data)
    /\ LET r == ChunkIteration(input.data, self_offset, chunks)
       IN  pc' = r.pc /\ self_offset' = r.offset /\ chunks' = r.found
    /\ iters' = iters + 1
    /\ UNCHANGED <<kind, input, calls, ret>>
    /\ UNCHANGED codecVars

\* the loop condition fails and _read_chunks returns
ReadChunksReturn ==
    /\ pc = "reading" /\ ~(self_offset < Len(input.data))
    /\ pc' = "read"
    /\ UNCHANGED <<kind, input, chunks, calls, ret>>
    /\ UNCHANGED codecVars
    /\ UNCHANGED stepVars

NextChunks == ReadChunksIterate \/ ReadChunksReturn

\* the loop is sequential code: a step that can be taken is taken
SpecChunks == InitChunks /\ [][NextChunks]_vars /\ WF_vars(NextChunks)

(***************************************************************************)
(* Properties.                                                             *)
(***************************************************************************)
\* parse() has returned a model
Returned == pc = "done" /\ ~ret.raised /\ ~ret.result.none
Font == ret.result.val

\* the input files give glyph id g the advance width 16 * g (GlyphBytes, Descriptor)
GlyphIdOf(glyph) == glyph.adv_w \div 16

\* every pair the cmaps array of a source file resolves, in source order
RECURSIVE AllPairs(_, _, _)
AllPairs(file, blocks, k) ==
    IF k > Len(blocks) THEN <<>>
    ELSE (IF BlockComplete(blocks[k]) THEN CmapPairs(file, blocks[k]) ELSE <<>>)
             \o AllPairs(file, blocks, k + 1)

\* the glyph ids block k resolves unicode u to, among those in range
InRangeIds(file, font, k, u) ==
    IF ~BlockComplete(file.cmaps.val[k]) THEN {}
    ELSE {p[2] : p \in {q \in {CmapPairs(file, file.cmaps.val[k])[i] :
                                  i \in 1..Len(CmapPairs(file, file.cmaps.val[k]))} :
                           q[1] = u /\ q[2] < Len(font.glyphs)}}

\* the glyph id of the last pair, in source order, that resolves u in range
LastInRangeId(file, font, u) ==
    LET all == AllPairs(file, file.cmaps.val, 1)
        hits == {i \in 1..Len(all) : all[i][1] = u /\ all[i][2] < Len(font.glyphs)}
    IN  all[CHOOSE i \in hits : \A j \in hits : j <= i][2]

\* C1 (as claimed): when two cmap ranges of a source file resolve the same unicode to
\* two different in-range glyph ids, get_glyph returns the glyph the later range
\* selected
C1_LaterRangeWins ==
    (Returned /\ kind = "c" /\ ~input.cmaps.none) =>
        \A u \in 1..80 : \A i, j \in 1..Len(input.cmaps.val) :
            (i < j /\ \E gi \in InRangeIds(input, Font, i, u) :
                          \E gj \in InRangeIds(input, Font, j, u) : gi # gj)
            => GetGlyph(Font, u) = Some(LastInRangeId(input, Font, u) + 1)

\* C2 (as claimed): whatever a parser instance parsed before, parse(B) returns what a
\* freshly constructed parser returns for B
C2_ReuseEqualsFresh ==
    pc = "done" =>
        ret = (IF kind = "bin" THEN BinParse(EmptyDict, input) ELSE CParse(input))

\* C3: parse() of either parser ends by returning None or by returning a FontInfo; no
\* exception leaves it, and when the try block raised the result is None
C3_ParseNeverRaises ==
    pc = "done" =>
        /\ ~ret.raised
        /\ ret.result.none \/ DOMAIN ret.result.val = DOMAIN FontInfoDefault
        /\ LET body == IF kind = "bin" THEN BinParseBody(EmptyDict, input).exc
                       ELSE CParseBody(input).exc
           IN  body # "none" => ret.result = None

\* a binary file whose head chunk is too short made the try block raise, and parse()
\* returned None
C3_Witness ==
    /\ pc = "done" /\ kind = "bin" /\ input.readable
    /\ BinParseBody(EmptyDict, input).exc = "struct.error"
    /\ ret = [raised |-> FALSE, result |-> None]

\* C4 (as claimed): a binary file that can be read always yields a model, whatever
\* its chunks declare
C4_OutOfBoundsRecoverable ==
    (pc = "done" /\ kind = "bin" /\ input.readable) => (~ret.raised /\ ~ret.result.none)

\* the chunks of a file as a dict, a later chunk replacing an earlier one of its name
RECURSIVE PartsDict(_, _, _)
PartsDict(parts, k, found) ==
    IF k > Len(parts) THEN found
    ELSE PartsDict(parts, k + 1, Put(found, parts[k].name, parts[k].payload))

\* C5 (as claimed): when a chunk declares more bytes than the buffer holds, the
\* chunks before it are kept, nothing after them is, and the result is a model; one
\* complete head chunk followed by such a chunk gives the head's metrics and no glyph
C5_TruncatedStreamYieldsModel ==
    (pc = "done" /\ kind = "bin" /\ input.readable /\ input.tail = "short") =>
        /\ chunks = PartsDict(input.parts, 1, EmptyDict)
        /\ ~ret.raised /\ ~ret.result.none
        /\ (Len(input.parts) = 1 /\ input.parts[1].name = TagHead
            /\ Len(input.parts[1].payload) = 40) =>
               /\ Font.font_size = 16 /\ Font.bpp \in HeadBpps
               /\ Font.line_height = 17 /\ Font.base_line = 3
               /\ Font.glyphs = <<>>

\* the names of the chunks a binary file holds
PartNames(file) == {file.parts[k].name : k \in 1..Len(file.parts)}

\* C6 (as claimed): a readable file with any of its tables or chunks missing yields a
\* model; the fields of a missing stage keep their defaults, those of a present
\* stage are set
C6_AbsentStageOnlySkipped ==
    (pc = "done" /\ input.readable) =>
        /\ ~ret.raised /\ ~ret.result.none
        /\ kind = "bin" =>
              /\ TagHead \notin PartNames(input) =>
                    /\ Font.font_size = 0 /\ Font.bpp = 0
                    /\ Font.line_height = 0 /\ Font.base_line = 0
              /\ TagHead \in PartNames(input) =>
                    /\ Font.font_size = 16 /\ Font.bpp \in HeadBpps
                    /\ Font.line_height = 17 /\ Font.base_line = 3
              /\ ~({TagLoca, TagGlyf} \subseteq PartNames(input)) =>
                    Font.glyphs = <<>> /\ Font.glyph_bitmap = <<>>
              /\ TagCmap \notin PartNames(input) =>
                    Font.glyphs = <<>> /\ Font.unicode_to_glyph = EmptyDict
        /\ kind = "c" =>
              /\ Font.font_size = (IF input.size.none THEN 0 ELSE input.size.val)
              /\ Font.bpp = (IF input.bpp.none THEN 0 ELSE input.bpp.val)
              /\ Font.font_name = (IF input.font_name.none THEN "" ELSE input.font_name.val)
              /\ Font.glyph_bitmap = (IF input.bitmap.none THEN <<>> ELSE input.bitmap.val)
              /\ Len(Font.glyphs) = (IF input.dsc.none THEN 0 ELSE Len(input.dsc.val))
              /\ input.cmaps.none =>
                    Font.cmap_ranges = <<>> /\ Font.unicode_to_glyph = EmptyDict
              /\ Font.line_height = (IF input.line_height.none THEN 0
                                     ELSE input.line_height.val)
              /\ Font.subpx = (IF input.subpx.none THEN "NONE" ELSE input.subpx.val)

\* C7 (as claimed): in every model returned, the glyph at position i of the glyph
\* sequence is the glyph whose glyph id is i
C7_GlyphIndexIsGlyphId ==
    Returned => \A i \in 1..Len(Font.glyphs) : GlyphIdOf(Font.glyphs[i]) = i - 1

\* ceil(width * height * bpp / 8)
Required(width, height, bpp) == (width * height * bpp + 7) \div 8

\* bit field number j (from the top) of a byte cut into fields of bpp bits
TopField(byte_val, bpp, j) == (byte_val \div (2 ^ (8 - bpp * (j + 1)))) % (2 ^ bpp)

\* sample number k (row-major, from 0) of a grid
Sample(grid, width, k) == grid[(k \div width) + 1][(k % width) + 1]

Supported == {1, 2, 4, 8}
Called == u_impl # "none"

\* C8: for bpp in {1,2,4,8}, unpack of the required number of bytes returns a grid of
\* height rows of width samples, and whenever unpack of at least that many bytes
\* returns, sample k is field k mod (8/bpp), counted from the top, of byte
\* floor(k*bpp/8), and lies in 0..2^bpp-1; 0xAB at 4 bpp is [0xA, 0xB] and
\* 0b10110000 at 1 bpp is [1,0,1,1,0,0,0,0]
C8_SamplesMsbFirst ==
    (Called /\ u_in.bpp \in Supported
        /\ Len(u_in.data) >= Required(u_in.width, u_in.height, u_in.bpp)) =>
        /\ Len(u_in.data) = Required(u_in.width, u_in.height, u_in.bpp) => ~u_out.raise
        /\ ~u_out.raise =>
              /\ Len(u_out.grid) = u_in.height
              /\ \A r \in 1..u_in.height : Len(u_out.grid[r]) = u_in.width
              /\ \A k \in 0..(u_in.width * u_in.height - 1) :
                    /\ Sample(u_out.grid, u_in.width, k) =
                          TopField(u_in.data[((k * u_in.bpp) \div 8) + 1], u_in.bpp,
                                   k % (8 \div u_in.bpp))
                    /\ Sample(u_out.grid, u_in.width, k) \in 0..(2 ^ u_in.bpp - 1)
        /\ u_in = [data |-> <<171>>, width |-> 2, height |-> 1, bpp |-> 4] =>
              u_out = [raise |-> FALSE, grid |-> <<<<10, 11>>>>]
        /\ u_in = [data |-> <<176>>, width |-> 4, height |-> 2, bpp |-> 1] =>
              u_out = [raise |-> FALSE, grid |-> <<<<1, 0, 1, 1>>, <<0, 0, 0, 0>>>>]

\* the binary parser's unpack was called on the byte 0xAB at 4 bpp for 2 samples
C8_Witness ==
    /\ u_impl = "bin"
    /\ u_in = [data |-> <<171>>, width |-> 2, height |-> 1, bpp |-> 4]
    /\ ~u_out.raise

\* C9 (as claimed): unpack with a bpp outside {1,2,4,8} is an error and gives no grid
\* (stated for boxes of at least one sample)
C9_UnsupportedBppIsError ==
    (Called /\ u_in.bpp \notin Supported /\ u_in.width > 0 /\ u_in.height > 0) =>
        u_out.raise

\* C10 (as claimed): for bpp in {1,2,4,8} and at least the required number of bytes,
\* unpack returns width*height samples that are those of the first required bytes
\* (stated for boxes of at least one sample)
C10_ExtraBytesIgnored ==
    (Called /\ u_in.bpp \in Supported /\ u_in.width > 0 /\ u_in.height > 0
        /\ Len(u_in.data) >= Required(u_in.width, u_in.height, u_in.bpp)) =>
        /\ ~u_out.raise
        /\ Len(u_out.grid) = u_in.height
        /\ \A r \in 1..u_in.height : Len(u_out.grid[r]) = u_in.width
        /\ LET first == SubSeq(u_in.data, 1, Required(u_in.width, u_in.height, u_in.bpp))
           IN  u_out = (IF u_impl = "bin"
                        THEN BinUnpackBitmap(first, u_in.width, u_in.height, u_in.bpp)
                        ELSE CUnpackBitmap(first, u_in.width, u_in.height, u_in.bpp))

\* C11: for every bpp in {1,2,4,8}, every width and height and every grid of samples
\* in 0..2^bpp-1, unpacking the bytes the grid packs to (row-major, most significant
\* bits first, last byte zero-padded) returns the grid, in both parsers
C11_UnpackOfPackIsGrid ==
    (Called /\ u_in.data = Pack(u_grid, u_in.width, u_in.height, u_in.bpp)) =>
        /\ ~u_out.raise
        /\ u_out.grid = u_grid

\* a 3x2 grid holding all three sample values went through the text parser's unpack
\* at 2 bpp
C11_Witness ==
    /\ u_impl = "c" /\ u_in.bpp = 2 /\ u_in.width = 3 /\ u_in.height = 2
    /\ u_grid = <<<<3, 0, 2>>, <<2, 3, 0>>>>
    /\ Len(u_in.data) = 2
    /\ ~u_out.raise /\ u_out.grid = u_grid

\* the four encodings the claim names
RuleKinds == {"FORMAT0_TINY", "FORMAT0_FULL", "SPARSE_TINY", "SPARSE_FULL"}

\* an offset array named by a range: empty when the name is absent, NULL or not
\* declared in the file
Listed(file, name) ==
    IF name.none \/ name.val = "NULL" \/ name.val \notin DOMAIN file.arrays THEN <<>>
    ELSE file.arrays[name.val]

\* the pairs <<unicode, glyph id>> the four rules give a range
RulePairs(file, block) ==
    LET S == block.range_start.val
        L == block.range_length.val
        G == block.glyph_id_start.val
        uni == Listed(file, block.unicode_list)
        ofs == Listed(file, block.glyph_id_ofs_list)
        t == block.type.val
        n == CASE t = "FORMAT0_TINY" -> L
               [] t = "FORMAT0_FULL" -> Min(L, Len(ofs))
               [] t = "SPARSE_TINY" -> Min(L, Len(uni))
               [] t = "SPARSE_FULL" -> Min(L, Min(Len(uni), Len(ofs)))
    IN  [k \in 1..n |->
            CASE t = "FORMAT0_TINY" -> <<S + (k - 1), G + (k - 1)>>
              [] t = "FORMAT0_FULL" -> <<S + (k - 1), G + ofs[k]>>
              [] t = "SPARSE_TINY" -> <<S + uni[k], G + (k - 1)>>
              [] t = "SPARSE_FULL" -> <<S + uni[k], G + ofs[k]>>]

\* the pairs of all the ranges of a file, in order
RECURSIVE RuleAllPairs(_, _, _)
RuleAllPairs(file, blocks, k) ==
    IF k > Len(blocks) THEN <<>>
    ELSE RulePairs(file, blocks[k]) \o RuleAllPairs(file, blocks, k + 1)

\* every range of the file has its three fields and one of the four encodings
RuleFile(file) ==
    /\ ~file.cmaps.none
    /\ \A k \in 1..Len(file.cmaps.val) :
          /\ BlockComplete(file.cmaps.val[k])
          /\ ~file.cmaps.val[k].type.none
          /\ file.cmaps.val[k].type.val \in RuleKinds

\* the unicode the rules leave on glyph id g: that of the last pair naming g, 0 when
\* no pair names it
RuleUnicode(file, g) ==
    LET all == RuleAllPairs(file, file.cmaps.val, 1)
        hits == {i \in 1..Len(all) : all[i][2] = g}
    IN  IF hits = {} THEN 0 ELSE all[CHOOSE i \in hits : \A j \in hits : j <= i][1]

\* C12: in a model the text parser returns, the unicode of every glyph is the one the
\* four encoding rules give it (n = L for TINY, else the minimum of L and the lengths
\* of the offset arrays the kind needs, 0 when one is missing), glyphs no in-range
\* pair names keep unicode 0; SPARSE_FULL with unicode offsets [0,5,10], glyph
\* offsets [2,3,4], S = 0x41, G = 100 resolves to 0x41:102, 0x46:103, 0x4B:104 (all
\* out of range of the glyph tables tried, so no glyph is written)
C12_CmapRulesResolve ==
    (Returned /\ kind = "c" /\ RuleFile(input)) =>
        /\ \A g \in 0..(Len(Font.glyphs) - 1) :
              Font.glyphs[g + 1].unicode = RuleUnicode(input, g)
        /\ input \in ExampleCFiles =>
              /\ CmapPairs(input, input.cmaps.val[1]) = <<<<65, 102>>, <<70, 103>>, <<75, 104>>>>
              /\ \A g \in 0..(Len(Font.glyphs) - 1) : Font.glyphs[g + 1].unicode = 0

\* the text parser returned a model in which a SPARSE_FULL range clipped to the two
\* entries of its glyph offset array wrote glyphs 1 and 0
C12_Witness ==
    /\ Returned /\ kind = "c" /\ RuleFile(input) /\ Len(input.cmaps.val) = 1
    /\ input.cmaps.val[1].type.val = "SPARSE_FULL" /\ input.cmaps.val[1].range_length.val = 3
    /\ Len(Font.glyphs) = MaxGlyphs
    /\ Font.glyphs[2].unicode = 65 /\ Font.glyphs[1].unicode = 70

\* the index of a model as unicode -> the glyph found
IndexGlyphs(font) ==
    [u \in DOMAIN font.unicode_to_glyph |-> font.glyphs[font.unicode_to_glyph[u]]]

\* a binary subtable all of whose glyph ids lie beyond the glyph table
SubOutOfRange(sb) == sb.type = 2 /\ sb.range_len > 0 /\ sb.glyph_id_offset >= MaxGlyphs

\* a binary file rebuilt without the subtables whose pairs are all out of range
BinWithoutOutOfRange(file) ==
    BinFile([k \in 1..Len(file.parts) |->
                IF "subs" \in DOMAIN file.parts[k]
                THEN LET kept == SelectSeq(file.parts[k].subs, LAMBDA sb : ~SubOutOfRange(sb))
                     IN  [name |-> TagCmap, payload |-> CmapPayload(kept), subs |-> kept]
                ELSE file.parts[k]],
            file.tail)

\* a range of a source file that resolves at least one pair, all of them beyond the
\* glyph table
BlockOutOfRange(file, block) ==
    /\ BlockComplete(block)
    /\ Len(CmapPairs(file, block)) > 0
    /\ \A i \in 1..Len(CmapPairs(file, block)) :
          CmapPairs(file, block)[i][2] >= (IF file.dsc.none THEN 0 ELSE Len(file.dsc.val))

\* a source file without those ranges
CWithoutOutOfRange(file) ==
    [file EXCEPT !.cmaps =
        Some(SelectSeq(file.cmaps.val, LAMBDA b : ~BlockOutOfRange(file, b)))]

\* C13 (as claimed): a cmap pair whose glyph id is out of range emits nothing and is
\* not fatal: the model is returned and its unicode index is the one of the same
\* file without the ranges whose pairs are all out of range, so a unicode an earlier
\* range mapped to a valid glyph is still found
C13_OutOfRangePairDropped ==
    /\ (pc = "done" /\ kind = "bin" /\ input.readable
           /\ \E k \in 1..Len(input.parts) : "subs" \in DOMAIN input.parts[k]) =>
          LET twin == BinParse(EmptyDict, BinWithoutOutOfRange(input)) IN
          ~twin.result.none =>
              /\ Returned
              /\ IndexGlyphs(Font) = IndexGlyphs(twin.result.val)
    /\ (pc = "done" /\ kind = "c" /\ input.readable /\ ~input.cmaps.none) =>
          LET twin == CParse(CWithoutOutOfRange(input)) IN
          ~twin.result.none =>
              /\ Returned
              /\ IndexGlyphs(Font) = IndexGlyphs(twin.result.val)

\* C14: in a returned model, get_glyph(u) is None for every u that is not a key of
\* the index and, for a key, a glyph object of the glyph sequence; every key is > 0
\* and maps to a glyph whose unicode is the key; every glyph with unicode > 0 has its
\* unicode as a key
C14_IndexMatchesGlyphs ==
    Returned =>
        /\ \A u \in 0..100 :
              IF u \in DOMAIN Font.unicode_to_glyph
              THEN /\ ~GetGlyph(Font, u).none
                   /\ GetGlyph(Font, u).val \in 1..Len(Font.glyphs)
              ELSE GetGlyph(Font, u) = None
        /\ \A k \in DOMAIN Font.unicode_to_glyph :
              /\ k > 0
              /\ Font.unicode_to_glyph[k] \in 1..Len(Font.glyphs)
              /\ Font.glyphs[Font.unicode_to_glyph[k]].unicode = k
        /\ \A i \in 1..Len(Font.glyphs) :
              Font.glyphs[i].unicode > 0 => Font.glyphs[i].unicode \in DOMAIN Font.unicode_to_glyph

\* the text parser returned a model with a mapped glyph that get_glyph finds and a
\* reserved glyph (unicode 0) that is not a key
C14_Witness ==
    /\ Returned /\ kind = "c"
    /\ \E i \in 1..Len(Font.glyphs) : Font.glyphs[i].unicode = 0
    /\ GetGlyph(Font, 65) # None /\ Font.glyphs[GetGlyph(Font, 65).val].unicode = 65
    /\ GetGlyph(Font, 64) = None

\* the unicodes the cmap chunk of a binary file maps to glyph id 0, whose loca range
\* is empty in the files tried
ZeroRangeUnicodes ==
    IF TagCmap \in DOMAIN chunks
    THEN LET map == ParseCmapChunk(FontInfoDefault, chunks[TagCmap]).unicode_to_glyph
         IN  {map[i][1] : i \in {j \in 1..Len(map) : map[j][2] = 0}}
    ELSE {}

\* C15: in every model returned by either parser a glyph whose box width or height
\* is 0 has no pixel grid; in the binary parser a glyph id whose loca range is empty
\* yields a glyph with advance, box and offsets all 0 and no pixel grid
C15_EmptyBoxHasNoGrid ==
    Returned =>
        /\ \A i \in 1..Len(Font.glyphs) :
              (Font.glyphs[i].box_w = 0 \/ Font.glyphs[i].box_h = 0) =>
                  Font.glyphs[i].bitmap_data = None
        /\ (kind = "bin" /\ TagLoca \in DOMAIN chunks /\ TagGlyf \in DOMAIN chunks
               /\ chunks[TagLoca] = LocaPayload(MaxGlyphs)) =>
              \A u \in ZeroRangeUnicodes :
                  /\ \E i \in 1..Len(Font.glyphs) : Font.glyphs[i].unicode = u
                  /\ \A i \in 1..Len(Font.glyphs) :
                        Font.glyphs[i].unicode = u =>
                            /\ Font.glyphs[i].adv_w = 0
                            /\ Font.glyphs[i].box_w = 0 /\ Font.glyphs[i].box_h = 0
                            /\ Font.glyphs[i].ofs_x = 0 /\ Font.glyphs[i].ofs_y = 0
                            /\ Font.glyphs[i].bitmap_data = None

\* the binary parser returned a model with the glyph of an empty loca range, a glyph
\* that has bytes but no width, and a glyph that has a pixel grid
C15_Witness ==
    /\ Returned /\ kind = "bin" /\ ZeroRangeUnicodes # {}
    /\ \E i \in 1..Len(Font.glyphs) :
          Font.glyphs[i].adv_w = 0 /\ Font.glyphs[i].bitmap_data = None
    /\ \E i \in 1..Len(Font.glyphs) :
          /\ Font.glyphs[i].adv_w > 0 /\ Font.glyphs[i].box_w = 0 /\ Font.glyphs[i].box_h > 0
          /\ Font.glyphs[i].bitmap_data = None
    /\ \E i \in 1..Len(Font.glyphs) : Font.glyphs[i].bitmap_data # None

\* an extension that is '.c' or '.bin' in some mix of upper and lower case
IsDotC == Len(input.ext) = 2 /\ input.ext[1] = 46 /\ input.ext[2] \in {99, 67}
IsDotBin ==
    /\ Len(input.ext) = 4 /\ input.ext[1] = 46 /\ input.ext[2] \in {98, 66}
    /\ input.ext[3] \in {105, 73} /\ input.ext[4] \in {110, 78}

\* C16: load_font picks the parser by the file extension whatever its case: '.c'
\* the text parser, '.bin' the binary parser; with any other extension it returns
\* with no parser made, no parse() call and nothing read
C16_DispatchOnExtension ==
    /\ pc \in {"parsing", "done"} =>
          /\ kind \in {"c", "bin"}
          /\ kind = "c" <=> IsDotC
          /\ kind = "bin" <=> IsDotBin
    /\ pc = "rejected" =>
          /\ ~IsDotC /\ ~IsDotBin
          /\ kind = "none" /\ calls = 0 /\ chunks = EmptyDict /\ ret = None

\* a readable file of well-formed chunks named font.txt was rejected
C16_Witness ==
    /\ pc = "rejected" /\ input.path = "font.txt" /\ input.readable
    /\ "parts" \in DOMAIN input /\ Len(input.parts) = 4
    /\ kind = "none" /\ calls = 0

\* the ranges a source file declares with all three fields, in source order
DeclaredRanges(file) ==
    IF file.cmaps.none THEN <<>> ELSE SelectSeq(file.cmaps.val, BlockComplete)

\* C17: get_unicode_ranges on a returned model gives one pair (range_start,
\* range_start + range_length - 1) per recorded cmap range, in recorded order; each
\* pair spans the declared length; the result is the same whatever the unicode index
\* holds and whether or not the range's glyph ids were in range
C17_UnicodeRangesFromCmap ==
    Returned =>
        LET got == GetUnicodeRanges(Font)
            declared == IF kind = "c" THEN DeclaredRanges(input) ELSE <<>>
        IN  /\ Len(got) = Len(declared)
            /\ Len(got) = Len(Font.cmap_ranges)
            /\ \A k \in 1..Len(got) :
                  /\ got[k][1] = declared[k].range_start.val
                  /\ got[k][2] = declared[k].range_start.val + declared[k].range_length.val - 1
                  /\ got[k][2] - got[k][1] + 1 = Font.cmap_ranges[k].range_length
            /\ GetUnicodeRanges([Font EXCEPT !.unicode_to_glyph = EmptyDict]) = got
            /\ GetUnicodeRanges(BuildIndex(Font)) = got

\* the text parser returned a model of two ranges, the second of which names only
\* glyph ids beyond the glyph table, and both are listed
C17_Witness ==
    /\ Returned /\ kind = "c" /\ Len(DeclaredRanges(input)) = 2
    /\ BlockOutOfRange(input, input.cmaps.val[2])
    /\ GetUnicodeRanges(Font) = <<<<65, 66>>, <<65, 65>>>>
    /\ Font.unicode_to_glyph # EmptyDict

\* the ascent (u16 at bytes 8-9) and descent (i16 at bytes 10-11) a head payload holds
AscentIn(payload) == payload[9] + 256 * payload[10]
DescentIn(payload) ==
    IF payload[12] >= 128 THEN payload[11] + 256 * payload[12] - 65536
    ELSE payload[11] + 256 * payload[12]

\* C18: after a head chunk with ascent a and descent d is decoded the model has
\* line_height = a - d and base_line = -d (ascent 14, descent -3: 17 and 3), font_size
\* from bytes 6-7 and bpp from byte 29 of the payload
C18_HeadMetrics ==
    (pc = "done" /\ kind = "bin" /\ Len(input.parts) = 1 /\ input.parts[1].name = TagHead
        /\ Len(input.parts[1].payload) = 40) =>
        LET payload == input.parts[1].payload IN
        /\ Returned
        /\ Font.line_height = AscentIn(payload) - DescentIn(payload)
        /\ Font.base_line = 0 - DescentIn(payload)
        /\ Font.font_size = payload[7] + 256 * payload[8]
        /\ Font.bpp = payload[30]
        /\ (AscentIn(payload) = 14 /\ DescentIn(payload) = -3) =>
               (Font.line_height = 17 /\ Font.base_line = 3)

\* a head chunk with ascent 14 and descent -3 was decoded
C18_Witness ==
    /\ Returned /\ kind = "bin" /\ Len(input.parts) = 1
    /\ input.parts[1].payload = HeadWith(16, 14, -3, 4)
    /\ Font.line_height = 17 /\ Font.base_line = 3 /\ Font.font_size = 16 /\ Font.bpp = 4

\* the header of subtable k (from 1) of a cmap payload, after the 12-byte inner header
SubAt(data, k) ==
    LET o == 12 + 16 * (k - 1) IN
    [off |-> ReadUint32(data, o), start |-> ReadUint32(data, o + 4),
     len |-> ReadUint16(data, o + 8), gid |-> ReadUint16(data, o + 10),
     total |-> ReadUint16(data, o + 12), type |-> ReadUint8(data, o + 14)]

\* where the data a subtable declares ends: type 0 holds range_length bytes, type 3
\* total u16, type 1 twice total u16; type 2 holds none
SubExtent(sb) ==
    CASE sb.type = 0 -> sb.off + sb.len
      [] sb.type = 3 -> sb.off + 2 * sb.total
      [] sb.type = 1 -> sb.off + 4 * sb.total
      [] OTHER -> 0

SubWithin(data, sb) == SubExtent(sb) <= Len(data)

\* every declared subtable header of the cmap chunk lies in the payload
CmapReadable ==
    /\ pc = "done" /\ kind = "bin" /\ TagCmap \in DOMAIN chunks
    /\ Len(chunks[TagCmap]) >= 12
    /\ 12 + 16 * ReadUint32(chunks[TagCmap], 8) <= Len(chunks[TagCmap])

\* the loca and glyf chunks are the complete ones and no sample is 8 bits wide, so
\* every glyph id up to MaxGlyphs - 2 that the cmap names yields a glyph
GlyphsLoadable ==
    /\ TagLoca \in DOMAIN chunks /\ chunks[TagLoca] = LocaPayload(MaxGlyphs)
    /\ TagGlyf \in DOMAIN chunks /\ chunks[TagGlyf] = GlyfPayload(MaxGlyphs)
    /\ Returned /\ Font.bpp # 8

\* the little-endian u16 at a position of the payload
U16At(data, pos) == data[pos + 1] + 256 * data[pos + 2]

\* the pairs <<unicode, glyph id>> the per-type rules give a subtable, in order of j
BinRulePairs(data, sb) ==
    CASE sb.type = 2 -> [j \in 1..sb.len |-> <<sb.start + (j - 1), sb.gid + (j - 1)>>]
      [] sb.type = 0 -> [j \in 1..sb.len |-> <<sb.start + (j - 1), sb.gid + data[sb.off + j]>>]
      [] sb.type = 3 ->
            [j \in 1..sb.total |->
                <<sb.start + U16At(data, sb.off + 2 * (j - 1)), sb.gid + (j - 1)>>]
      [] sb.type = 1 ->
            [j \in 1..sb.total |->
                <<sb.start + U16At(data, sb.off + 2 * (j - 1)),
                  sb.gid + U16At(data, sb.off + 2 * sb.total + 2 * (j - 1))>>]
      [] OTHER -> <<>>

\* a mapping with the pairs of a sequence written in order
RECURSIVE PutAll(_, _, _)
PutAll(map, pairs, k) ==
    IF k > Len(pairs) THEN map ELSE PutAll(Put(map, pairs[k][1], pairs[k][2]), pairs, k + 1)

\* the mapping the rules give the subtables k.. of a payload, written over map
RECURSIVE BinRuleMap(_, _, _)
BinRuleMap(data, k, map) ==
    IF k > ReadUint32(data, 8) THEN map
    ELSE BinRuleMap(data, k + 1, PutAll(map, BinRulePairs(data, SubAt(data, k)), 1))

\* the pairs of a mapping whose glyph id the complete loca table can place
Placed(map) == {<<u, map[u]>> : u \in {v \in DOMAIN map : map[v] <= MaxGlyphs - 2}}

\* the pairs <<unicode, glyph id>> of the glyphs of a model
GlyphPairs(font) == {<<font.glyphs[i].unicode, GlyphIdOf(font.glyphs[i])>> : i \in 1..Len(font.glyphs)}

\* the insertion-ordered dict of the cmap stage as a mapping
DictMap(od) == PutAll(EmptyDict, od, 1)

\* the mapping the cmap stage builds when the subtables that run past the payload
\* are passed over and the others are decoded as the code decodes them
RECURSIVE WithinOnly(_, _, _)
WithinOnly(data, k, od) ==
    IF k > ReadUint32(data, 8) THEN od
    ELSE WithinOnly(data, k + 1,
                    IF SubWithin(data, SubAt(data, k))
                    THEN CmapSubtable(od, data, 12 + 16 * (k - 1)) ELSE od)

\* C19 (as claimed): a cmap subtable whose declared data runs past the chunk payload
\* (type 0: data_offset + range_length; type 3: data_offset + 2*total; type 1:
\* data_offset + 4*total) adds no mapping and does not abort the parse; the glyphs
\* are those the other subtables map
C19_OverrunSubtableSkipped ==
    (CmapReadable /\ (TagHead \in DOMAIN chunks => Len(chunks[TagHead]) = 40)
        /\ \E k \in 1..ReadUint32(chunks[TagCmap], 8) :
               ~SubWithin(chunks[TagCmap], SubAt(chunks[TagCmap], k))) =>
        /\ Returned
        /\ GlyphsLoadable =>
              GlyphPairs(Font) = Placed(DictMap(WithinOnly(chunks[TagCmap], 1, <<>>)))

\* C20 (as claimed): when every subtable lies within the payload the glyphs are those
\* of the per-type rules: type 2 range_start+j -> glyph_id_offset+j, type 0
\* range_start+j -> glyph_id_offset + byte[data_offset+j] (j < range_length), type 3
\* range_start + u16[data_offset+2j] -> glyph_id_offset+j, type 1 range_start +
\* u16[data_offset+2j] -> glyph_id_offset + u16[data_offset+2*total+2j] (j < total),
\* any other type nothing
C20_CmapPerTypeDecoding ==
    (CmapReadable /\ GlyphsLoadable
        /\ \A k \in 1..ReadUint32(chunks[TagCmap], 8) :
               SubWithin(chunks[TagCmap], SubAt(chunks[TagCmap], k))) =>
        GlyphPairs(Font) = Placed(BinRuleMap(chunks[TagCmap], 1, EmptyDict))

\* the positions _parse_glyf_chunks reads from a loca payload
PositionsOf(loca_data) == LocaPositions(loca_data, 0, ReadUint32(loca_data, 8), 12, <<>>)

\* the mapping the cmap stage leaves for the glyf stage, as <<unicode, glyph id>> pairs
CmapStage == ParseCmapChunk(FontInfoDefault, chunks[TagCmap]).unicode_to_glyph

\* C21 (as claimed): the parser reads glyph_count + 1 offsets from the loca payload
\* (all that fit when the payload is shorter), so with the complete loca table every
\* glyph id below glyph_count that the cmap names is decoded into a glyph
C21_LocaSentinelRead ==
    (Returned /\ kind = "bin" /\ TagLoca \in DOMAIN chunks /\ TagGlyf \in DOMAIN chunks
        /\ Len(chunks[TagLoca]) >= 12) =>
        LET loca == chunks[TagLoca]
            glyph_count == ReadUint32(loca, 8)
        IN  /\ Len(PositionsOf(loca)) = Min(glyph_count + 1, (Len(loca) - 12) \div 4)
            /\ (GlyphsLoadable /\ CmapReadable) =>
                  \A i \in 1..Len(CmapStage) :
                      CmapStage[i][2] < glyph_count =>
                          \E g \in 1..Len(Font.glyphs) :
                              /\ Font.glyphs[g].unicode = CmapStage[i][1]
                              /\ GlyphIdOf(Font.glyphs[g]) = CmapStage[i][2]

\* a byte as a signed 8-bit value
S8(b) == IF b >= 128 THEN b - 256 ELSE b

\* glyph g of a model is what the pair <<unicode, glyph_id>> yields from the byte
\* range its two positions bound in the glyf payload
DecodedFrom(g, pair, positions, glyf, bpp) ==
    /\ g.unicode = pair[1]
    /\ pair[2] < Len(positions) - 1
    /\ LET s == positions[pair[2] + 1]
           e == positions[pair[2] + 2]
           a == 8 + s
       IN  /\ g.bitmap_index = a
           /\ e - s = 0 => g = GlyphInfo(pair[1], a, 0, 0, 0, 0, 0)
           /\ e - s # 0 =>
                 /\ e - s >= 6
                 /\ g.adv_w = glyf[a + 1] + 256 * glyf[a + 2]
                 /\ g.box_w = glyf[a + 3] /\ g.box_h = glyf[a + 4]
                 /\ g.ofs_x = S8(glyf[a + 5]) /\ g.ofs_y = S8(glyf[a + 6])
                 /\ (g.box_w > 0 /\ g.box_h > 0) =>
                       g.bitmap_data =
                           Some(BinUnpackBitmap(SubSeq(glyf, a + 7, Min(8 + e, Len(glyf))),
                                                g.box_w, g.box_h, bpp).grid)

C22_EmptyPositions ==
    /\ Returned /\ kind = "bin" /\ CmapReadable
    /\ TagLoca \in DOMAIN chunks /\ TagGlyf \in DOMAIN chunks
    /\ Len(chunks[TagLoca]) = 12 /\ PositionsOf(chunks[TagLoca]) = <<>>
    /\ Len(CmapStage) > 0 /\ Font.glyphs = <<>>

\* the text parser has finished with a source file it could read whose bitmap
\* literals are bytes
CParsed ==
    /\ pc = "done" /\ kind = "c" /\ input.readable
    /\ input.bitmap.none \/ \A i \in 1..Len(input.bitmap.val) : input.bitmap.val[i] <= 255

\* glyph gl of a model holds the grid the rule of extraction gives it: unpack of the
\* ceil(box_w*box_h*bpp/8) bytes at bitmap_index when they lie in the array, none
\* otherwise
ExtractedByRule(font, gl) ==
    LET n == Required(gl.box_w, gl.box_h, font.bpp)
        first == gl.bitmap_index
    IN  IF first + n <= Len(font.glyph_bitmap)
        THEN LET pixels == CUnpackBitmap(SubSeq(font.glyph_bitmap, first + 1, first + n),
                                         gl.box_w, gl.box_h, font.bpp)
             IN  /\ ~pixels.raise
                 /\ gl.bitmap_data = Some(pixels.grid)
                 /\ Len(pixels.grid) = gl.box_h
                 /\ \A r \in 1..gl.box_h : Len(pixels.grid[r]) = gl.box_w
        ELSE gl.bitmap_data = None

\* C23 (as claimed): in the text parser every glyph with box_w > 0 and box_h > 0 whose
\* ceil(box_w*box_h*bpp/8) bytes from bitmap_index lie in the flat byte array holds
\* the box_h by box_w grid unpacked from exactly those bytes; any other such glyph is
\* skipped with no grid and extraction goes on to the end; get_glyph returns glyphs
\* of the list, so the grids are seen through it
C23_BitmapExtraction ==
    CParsed =>
        /\ Returned
        /\ \A g \in 1..Len(Font.glyphs) :
               (Font.glyphs[g].box_w > 0 /\ Font.glyphs[g].box_h > 0) =>
                   ExtractedByRule(Font, Font.glyphs[g])
        /\ \A u \in DOMAIN Font.unicode_to_glyph :
               /\ Font.unicode_to_glyph[u] \in 1..Len(Font.glyphs)
               /\ Font.glyphs[Font.unicode_to_glyph[u]].unicode = u

\* the declared size and the decoded name of the chunk at self.offset
SizeHere == ReadUint32(input.data, self_offset)
NameHere == DecodeName(SubSeq(input.data, self_offset + 5, self_offset + 8))

\* the iteration entered at self.offset is one that stops: fewer than 4 bytes are
\* left for the size or for the tag, the declared size is below 8, or the payload
\* runs past the buffer
MustStop ==
    \/ Len(input.data) - self_offset < 8
    \/ SizeHere < 8
    \/ self_offset + SizeHere > Len(input.data)

\* a step that enters an iteration either stops the loop, storing nothing, or stores
\* the chunk at self.offset under its name, over an earlier chunk of that name, and
\* advances by the declared size, which is at least 8
IterationStops == MustStop /\ pc' = "read" /\ chunks' = chunks
IterationStores ==
    /\ ~MustStop /\ pc' = "reading"
    /\ SizeHere >= 8 /\ self_offset' = self_offset + SizeHere
    /\ DOMAIN chunks' = DOMAIN chunks \cup {NameHere}
    /\ chunks'[NameHere] = SubSeq(input.data, self_offset + 9, self_offset + SizeHere)
    /\ \A t \in DOMAIN chunks \ {NameHere} : chunks'[t] = chunks[t]
IterationStep == iters' # iters => (iters' = iters + 1 /\ (IterationStops \/ IterationStores))

\* no exception has left the loop, every iteration before the present one stored a
\* chunk of at least 8 bytes inside the buffer, and what is left when the loop has
\* ended is what _read_chunks leaves
ReadingSafe ==
    /\ pc # "raised"
    /\ pc = "reading" => (8 * iters <= self_offset /\ self_offset <= Len(input.data))
    /\ pc = "read" => chunks = ReadChunks(input.data, 0, EmptyDict)

\* C24 (as claimed): chunk reading ends without raising on every buffer, every
\* iteration stopping or storing one chunk and advancing by its size >= 8, a later
\* chunk replacing an earlier one of its tag, and the number of iterations is at
\* most len(buffer)/8
C24_IterationsWithinEighth ==
    /\ [](ReadingSafe /\ 8 * iters <= Len(input.data))
    /\ [][IterationStep]_vars
    /\ <>(pc = "read")

\* C24 (amended): chunk reading ends without raising on every buffer, every iteration
\* stopping or storing one chunk and advancing by its size >= 8, a later chunk
\* replacing an earlier one of its tag; the iterations that store a chunk are at
\* most len(buffer)/8 and the iteration that stops comes on top of them, so the number
\* of iterations is at most floor(len(buffer)/8) + 1
C24_ChunkReadingEnds ==
    /\ [](ReadingSafe /\ iters <= (Len(input.data) \div 8) + 1)
    /\ [][IterationStep]_vars
    /\ <>(pc = "read")

\* a 21-byte buffer of two chunks whose names decode to 'ab' and 3 stray bytes was
\* read in three iterations, and the second chunk's data is what is held
C24_Witness ==
    /\ pc = "read" /\ iters = 3
    /\ input.data = Chunk(<<97, 98, 0, 0>>, <<5>>) \o Chunk(<<200, 97, 98, 0>>, <<6>>)
                        \o <<9, 0, 0>>
    /\ chunks = [t \in {<<97, 98>>} |-> <<6>>]

\* what the implementation that was not called gives for the same arguments
OtherUnpack ==
    IF u_impl = "bin" THEN CUnpackBitmap(u_in.data, u_in.width, u_in.height, u_in.bpp)
    ELSE BinUnpackBitmap(u_in.data, u_in.width, u_in.height, u_in.bpp)

\* C25: for every byte string, width, height and bpp the two _unpack_bitmap either
\* both raise or both return the same height-by-width grid; with fewer bytes than
\* required at bpp 1, 2 and 4 both return and the samples past the bytes are 0
C25_UnpackImplementationsAgree ==
    Called =>
        /\ u_out = OtherUnpack
        /\ ~u_out.raise =>
              /\ Len(u_out.grid) = u_in.height
              /\ \A r \in 1..u_in.height : Len(u_out.grid[r]) = u_in.width
        /\ (u_in.bpp \in {1, 2, 4}
              /\ Len(u_in.data) < Required(u_in.width, u_in.height, u_in.bpp)) =>
              /\ ~u_out.raise
              /\ \A k \in 0..(u_in.width * u_in.height - 1) :
                    k >= Len(u_in.data) * (8 \div u_in.bpp) =>
                        Sample(u_out.grid, u_in.width, k) = 0

\* the text parser's unpack was given one byte for a 3x2 box at 2 bpp and returned
\* its four samples followed by zeros
C25_Witness ==
    /\ u_impl = "c"
    /\ u_in = [data |-> <<171>>, width |-> 3, height |-> 2, bpp |-> 2]
    /\ u_out = [raise |-> FALSE, grid |-> <<<<2, 2, 2>>, <<3, 0, 0>>>>]

\* the fields a binary parse may set
BinParseWrites ==
    {"file_path", "file_type", "font_size", "bpp", "line_height", "base_line",
     "glyphs", "glyph_bitmap", "unicode_to_glyph"}

\* C26: on a model returned by BINFontParser.parse only file_path, file_type,
\* font_size, bpp, line_height, base_line, glyphs, glyph_bitmap and unicode_to_glyph
\* can differ from the FontInfo defaults: cmap_ranges and kern_pairs are empty,
\* get_unicode_ranges returns the empty list, and kern_scale, subpx, compression,
\* underline_position, underline_thickness and font_name are the defaults whatever
\* the head and cmap chunks hold
C26_BinParseFrame ==
    (Returned /\ kind = "bin") =>
        /\ DOMAIN Font = DOMAIN FontInfoDefault
        /\ \A f \in DOMAIN Font \ BinParseWrites : Font[f] = FontInfoDefault[f]
        /\ Font.cmap_ranges = <<>> /\ Font.kern_pairs = <<>>
        /\ GetUnicodeRanges(Font) = <<>>
        /\ Font.kern_scale = 0 /\ Font.subpx = "NONE" /\ Font.compression = "NONE"
        /\ Font.underline_position = 0 /\ Font.underline_thickness = 0
        /\ Font.font_name = ""

\* a model came back from a file whose head chunk sets the kerning scale, the
\* compression, the subpixel mode and the underline, and whose cmap maps glyphs
C26_Witness ==
    /\ Returned /\ kind = "bin"
    /\ TagHead \in DOMAIN chunks /\ chunks[TagHead] = HeadWith(16, 14, -3, 4)
    /\ ReadUint16(chunks[TagHead], 24) # 0 /\ ReadUint8(chunks[TagHead], 33) # 0
    /\ ReadUint8(chunks[TagHead], 34) # 0 /\ ReadInt16(chunks[TagHead], 36) # 0
    /\ ReadUint16(chunks[TagHead], 38) # 0
    /\ CmapReadable /\ Len(CmapStage) > 0
    /\ Len(Font.glyphs) > 0 /\ Font.font_size = 16 /\ Font.bpp = 4

====
